---- MODULE Spec2Model ----
(***************************************************************************)
(* Site tiering and deployment orchestration engine of wp-hubstack        *)
(* (scripts/server/site-optimizer): the inventory store, the tier         *)
(* classifier and the per-site deployer, as state machines.               *)
(*                                                                         *)
(* Encodings.  Optional[Tier] is one of the strings HIGH, MEDIUM, LOW or   *)
(* NoneV.  Optional[TrafficStats] keeps only daily_visitors, a natural     *)
(* number, or NoTraffic.  RAM is counted in gigabytes; RAM estimates are   *)
(* counted in quarters of a gigabyte (4.5 GB = 18, 2.75 GB = 11,           *)
(* 1.25 GB = 5), which represents every value the code computes exactly;   *)
(* percentages are counted in tenths of a percent.                         *)
(***************************************************************************)
EXTENDS Integers, Sequences, FiniteSets, TLC

\* ------------------------------------------------------------------ bounds

\* daily_visitors ranges over 0..MaxVisitors, thresholds over 0..MaxVisitors+1
MaxVisitors == 3

\* number of rows of an imported CSV or JSON file
MaxRows == 2

\* ------------------------------------------------------------- data model

HIGH == "HIGH"

MEDIUM == "MEDIUM"

LOW == "LOW"

Tier == {HIGH, MEDIUM, LOW}

\* Python's None for an Optional[Tier] or Optional[str] field
NoneV == "None"

\* Python's None for Site.traffic (daily_visitors itself is >= 0)
NoTraffic == -1

Visitors == 0..MaxVisitors

Thresholds == 0..(MaxVisitors + 1)

UNDER_CAPACITY == "UNDER_CAPACITY"

OPTIMAL == "OPTIMAL"

OVER_CAPACITY == "OVER_CAPACITY"

CRITICAL == "CRITICAL"

ServerStatus == {UNDER_CAPACITY, OPTIMAL, OVER_CAPACITY, CRITICAL}

\* Site: the fields the operations below read or write
Site(server, current_tier, assigned_tier, traffic, resources) ==
    [server |-> server, current_tier |-> current_tier,
     assigned_tier |-> assigned_tier, traffic |-> traffic,
     resources |-> resources]

\* Server: specs.ram_gb, sites and the three fields of capacity
Server(ram_gb, sitesList, current_sites, recommended_max, status) ==
    [ram_gb |-> ram_gb, sites |-> sitesList,
     current_sites |-> current_sites, recommended_max |-> recommended_max,
     status |-> status]

\* the empty dict
EmptyMap == [x \in {} |-> NoneV]

\* dict assignment d[k] = v
Put(d, k, v) == [x \in (DOMAIN d) \cup {k} |-> IF x = k THEN v ELSE d[x]]

\* an iteration order of a dict's keys (the results below do not depend on it)
RECURSIVE KeyOrder(_)
KeyOrder(S) ==
    IF S = {} THEN <<>>
    ELSE LET k == CHOOSE x \in S : TRUE IN <<k>> \o KeyOrder(S \ {k})

VARIABLES
    sites,            \* InventoryService.sites: domain -> Site
    servers,          \* InventoryService.servers: hostname -> Server
    tier1_threshold,  \* ClassifierService.tier1_threshold
    tier2_threshold,  \* ClassifierService.tier2_threshold
    inventory_file,   \* the document at data_dir/inventory.json
    fs,               \* the site directories under search_dir: name -> files
    config_dir,       \* the tier configuration files present in config_dir
    saving,           \* the save_inventory call in progress, if any
    lastOp            \* the last call made: its name, arguments and result

vars == <<sites, servers, tier1_threshold, tier2_threshold, inventory_file,
          fs, config_dir, saving, lastOp>>

\* ------------------------------------------------------------- classifier

classify_site_strict(site, t1, t2) ==
    IF site.traffic = NoTraffic THEN LOW
    ELSE IF site.traffic > t1 THEN HIGH
    ELSE IF site.traffic >= t2 THEN MEDIUM
    ELSE LOW

classify_site(site, t1, t2) ==
    IF site.traffic = NoTraffic THEN LOW
    ELSE IF site.traffic >= t1 THEN HIGH
    ELSE IF site.traffic >= t2 THEN MEDIUM
    ELSE LOW

\* classify_all's test for leaving a site alone
ShouldSkip_ignoring_overwrite(site, overwrite) == site.assigned_tier # NoneV

ShouldSkip_never(site, overwrite) == FALSE

ShouldSkip(site, overwrite) == site.assigned_tier # NoneV /\ ~overwrite

ZeroCounts == [classified |-> 0, skipped |-> 0, tier1 |-> 0, tier2 |-> 0, tier3 |-> 0]

ClassifyOne_counting_only(acc, d, overwrite, t1, t2) ==
    IF ShouldSkip(acc.sites[d], overwrite)
    THEN [acc EXCEPT !.counts.skipped = @ + 1]
    ELSE [acc EXCEPT !.counts.classified = @ + 1]

\* one iteration of classify_all's loop on the site of domain d
ClassifyOne(acc, d, overwrite, t1, t2) ==
    LET site == acc.sites[d] IN
    IF ShouldSkip(site, overwrite)
    THEN [acc EXCEPT !.counts.skipped = @ + 1]
    ELSE LET tier == classify_site(site, t1, t2)
             c1 == [acc.counts EXCEPT !.classified = @ + 1]
             c2 == IF tier = HIGH THEN [c1 EXCEPT !.tier1 = @ + 1]
                   ELSE IF tier = MEDIUM THEN [c1 EXCEPT !.tier2 = @ + 1]
                   ELSE [c1 EXCEPT !.tier3 = @ + 1]
         IN [sites |-> [acc.sites EXCEPT ![d].assigned_tier = tier], counts |-> c2]

RECURSIVE ClassifyLoop(_, _, _, _, _)
ClassifyLoop(acc, order, overwrite, t1, t2) ==
    IF order = <<>> THEN acc
    ELSE ClassifyLoop(ClassifyOne(acc, Head(order), overwrite, t1, t2),
                      Tail(order), overwrite, t1, t2)

\* returns the inventory's sites after the call and the counts
classify_all(ss, overwrite, t1, t2) ==
    ClassifyLoop([sites |-> ss, counts |-> ZeroCounts],
                 KeyOrder(DOMAIN ss), overwrite, t1, t2)

\* get_site is a plain dict lookup: the domain is found iff it is a key
set_tier_current(ss, domain, tier) ==
    IF domain \notin DOMAIN ss
    THEN [sites |-> ss, result |-> "ValueError"]
    ELSE [sites |-> [ss EXCEPT ![domain].current_tier = tier], result |-> "ok"]

set_tier(ss, domain, tier) ==
    IF domain \notin DOMAIN ss
    THEN [sites |-> ss, result |-> "ValueError"]
    ELSE [sites |-> [ss EXCEPT ![domain].assigned_tier = tier], result |-> "ok"]

\* RAM a site of each tier is estimated to use, in quarters of a gigabyte:
\* 4.5, 2.75 and 1.25 GB
RamQuartersHigh == 18

RamQuartersMedium == 11

RamQuartersLow == 5

\* gigabytes reserved for the system and MySQL
ReservedRamGb == 5

\* tier_counts[tier]: the sites list_sites(server=hostname) returns whose
\* assigned_tier is tier
TierCount_any_server(ss, hostname, tier) ==
    Cardinality({d \in DOMAIN ss : ss[d].assigned_tier = tier})

TierCount(ss, hostname, tier) ==
    Cardinality({d \in DOMAIN ss : ss[d].server = hostname /\ ss[d].assigned_tier = tier})

estimated_ram(c1, c2, c3) ==
    c1 * RamQuartersHigh + c2 * RamQuartersMedium + c3 * RamQuartersLow

available_ram(server) == server.ram_gb - ReservedRamGb

\* estimated_ram <= available_ram, the estimate being in quarters
IsValid_strict(est, avail) == est < 4 * avail

IsValid(est, avail) == est <= 4 * avail

\* round(num / den, 0) for den > 0.  Python rounds the double it computed:
\* where the exact quotient is half-way between two integers the double may
\* lie on either side, so both neighbours are results.
RoundHalf(num, den) ==
    LET q == num \div den
        r == num % den
    IN IF 2 * r < den THEN {q} ELSE IF 2 * r > den THEN {q + 1} ELSE {q, q + 1}

\* round((estimated_ram / available_ram) * 100, 1) if available_ram > 0 else 0,
\* in tenths of a percent
UtilizationTenths(est, avail) ==
    IF avail > 0 THEN RoundHalf(est * 250, avail) ELSE {0}

\* the results validate_server_capacity can return (one, but for a rounding tie)
validate_server_capacity(ss, hostname, server) ==
    LET c1 == TierCount(ss, hostname, HIGH)
        c2 == TierCount(ss, hostname, MEDIUM)
        c3 == TierCount(ss, hostname, LOW)
        est == estimated_ram(c1, c2, c3)
        avail == available_ram(server)
    IN { [hostname |-> hostname, tier1_sites |-> c1, tier2_sites |-> c2,
          tier3_sites |-> c3, estimated_ram_q |-> est, available_ram_gb |-> avail,
          is_valid |-> IsValid(est, avail), utilization_tenths |-> u]
         : u \in UtilizationTenths(est, avail) }

\* the recommendation records, in the order of the inventory
RECURSIVE RecommendLoop_by_current_tier(_, _, _, _)
RecommendLoop_by_current_tier(ss, order, t1, t2) ==
    IF order = <<>> THEN <<>>
    ELSE LET site == ss[Head(order)]
             rest == RecommendLoop_by_current_tier(ss, Tail(order), t1, t2)
             recommended_tier == classify_site(site, t1, t2)
         IN IF site.traffic = NoTraffic THEN rest
            ELSE IF site.current_tier # NoneV /\ site.current_tier # recommended_tier
            THEN <<[domain |-> Head(order), current_tier |-> site.current_tier,
                    recommended_tier |-> recommended_tier,
                    daily_visitors |-> site.traffic]>> \o rest
            ELSE rest

RECURSIVE RecommendLoop(_, _, _, _)
RecommendLoop(ss, order, t1, t2) ==
    IF order = <<>> THEN <<>>
    ELSE LET site == ss[Head(order)]
             rest == RecommendLoop(ss, Tail(order), t1, t2)
             current_tier == site.assigned_tier
             recommended_tier == classify_site(site, t1, t2)
         IN IF site.traffic = NoTraffic THEN rest
            ELSE IF current_tier # NoneV /\ current_tier # recommended_tier
            THEN <<[domain |-> Head(order), current_tier |-> current_tier,
                    recommended_tier |-> recommended_tier,
                    daily_visitors |-> site.traffic]>> \o rest
            ELSE rest

get_recommendations(ss, t1, t2) == RecommendLoop(ss, KeyOrder(DOMAIN ss), t1, t2)

needs_update_when_assigned(site) ==
    site.assigned_tier # NoneV /\ site.current_tier # site.assigned_tier

\* Site.needs_update
needs_update(site) ==
    IF site.current_tier = NoneV \/ site.assigned_tier = NoneV THEN FALSE
    ELSE site.current_tier # site.assigned_tier

\* -------------------------------------------------------------- server model

RemoveFirst(seq, x) ==
    LET i == CHOOSE j \in 1..Len(seq) : seq[j] = x /\ \A k \in 1..(j - 1) : seq[k] # x
    IN SubSeq(seq, 1, i - 1) \o SubSeq(seq, i + 1, Len(seq))

Elems(seq) == {seq[i] : i \in 1..Len(seq)}

add_site_unchecked(server, domain) ==
    LET l == Append(server.sites, domain)
    IN [server EXCEPT !.sites = l, !.current_sites = Len(l)]

add_site(server, domain) ==
    IF domain \notin Elems(server.sites)
    THEN LET l == Append(server.sites, domain)
         IN [server EXCEPT !.sites = l, !.current_sites = Len(l)]
    ELSE server

remove_site(server, domain) ==
    IF domain \in Elems(server.sites)
    THEN LET l == RemoveFirst(server.sites, domain)
         IN [server EXCEPT !.sites = l, !.current_sites = Len(l)]
    ELSE server

CapacityStatus_exclusive(current_sites, recommended_max) ==
    IF current_sites * 100 > 125 * recommended_max THEN CRITICAL
    ELSE IF current_sites * 100 > 100 * recommended_max THEN OVER_CAPACITY
    ELSE IF current_sites * 100 > 80 * recommended_max THEN OPTIMAL
    ELSE UNDER_CAPACITY

\* the status update_capacity_status derives; utilization is
\* current_sites / recommended_max * 100, compared here without the division
CapacityStatus(current_sites, recommended_max) ==
    LET zero == recommended_max = 0
        cs == IF zero THEN 0 ELSE current_sites
        rm == IF zero THEN 1 ELSE recommended_max
    IN IF cs * 100 >= 125 * rm THEN CRITICAL
       ELSE IF cs * 100 > 100 * rm THEN OVER_CAPACITY
       ELSE IF cs * 100 >= 80 * rm THEN OPTIMAL
       ELSE UNDER_CAPACITY

update_capacity_status(server) ==
    [server EXCEPT !.status = CapacityStatus(server.current_sites, server.recommended_max)]

\* ------------------------------------------------------------ inventory store

DefaultRamGb == 16

DefaultRecommendedMax == 16

ensure_server_exists(svs, hostname) ==
    IF hostname \notin DOMAIN svs
    THEN Put(svs, hostname, Server(DefaultRamGb, <<>>, 0, DefaultRecommendedMax, UNDER_CAPACITY))
    ELSE svs

\* Raw field values of an import file.  NaN is pandas' value of an empty CSV
\* cell, Missing an absent or null JSON key, Blank a whitespace-only string;
\* every other value is a string.
NaN == "NaN"

Missing == "Missing"

Blank == " "

\* v.lower().strip() of the validators of Site.domain, Site.server, Server.hostname
Normalize(v) ==
    CASE v = " A.com" -> "a.com"
      [] v = "H2 " -> "h2"
      [] OTHER -> v

\* Field(min_length=1) on a str field, then the validator's blank test
ValidName(v) == v \notin {NaN, Missing, Blank, ""}

\* Optional[str]: None or a string (a NaN float is no string)
ValidOptionalStr(v) == v # NaN

\* Tier as JSON: the IntEnum's value
DumpTier_name(t) == IF t = NoneV THEN "null" ELSE t

DumpTier(t) ==
    CASE t = HIGH -> "1" [] t = MEDIUM -> "2" [] t = LOW -> "3" [] OTHER -> "null"

ValidTierData(j) == j \in {"1", "2", "3", "null", Missing}

ParseTier(j) ==
    CASE j = "1" -> HIGH [] j = "2" -> MEDIUM [] j = "3" -> LOW [] OTHER -> NoneV

\* ServerStatus as JSON: the str Enum's value
DumpStatus(s) ==
    CASE s = UNDER_CAPACITY -> "under_capacity"
      [] s = OPTIMAL -> "optimal"
      [] s = OVER_CAPACITY -> "over_capacity"
      [] s = CRITICAL -> "critical"

ValidStatusData(j) == j \in {"under_capacity", "optimal", "over_capacity", "critical"}

ParseStatus(j) ==
    CASE j = "under_capacity" -> UNDER_CAPACITY
      [] j = "optimal" -> OPTIMAL
      [] j = "over_capacity" -> OVER_CAPACITY
      [] j = "critical" -> CRITICAL

\* Site(**site_data): whether validation passes, and the Site it builds
ValidSiteData(j) ==
    /\ ValidName(j.domain)
    /\ ValidName(j.server)
    /\ ValidTierData(j.current_tier)
    /\ ValidTierData(j.assigned_tier)
    /\ (j.traffic = NoTraffic \/ j.traffic >= 0)

SiteFromData(j) ==
    Site(Normalize(j.server), ParseTier(j.current_tier), ParseTier(j.assigned_tier),
         j.traffic, j.resources)

\* site.model_dump(mode="json")
DumpSite(domain, site) ==
    [domain |-> domain, server |-> site.server,
     current_tier |-> DumpTier(site.current_tier),
     assigned_tier |-> DumpTier(site.assigned_tier),
     traffic |-> site.traffic, resources |-> site.resources]

\* Server(**server_data)
ValidServerData(j) ==
    /\ ValidName(j.hostname)
    /\ j.ram_gb > 0
    /\ j.current_sites >= 0
    /\ j.recommended_max > 0
    /\ ValidStatusData(j.status)

ServerFromData(j) ==
    Server(j.ram_gb, j.sites, j.current_sites, j.recommended_max, ParseStatus(j.status))

\* server.model_dump(mode="json")
DumpServer(hostname, server) ==
    [hostname |-> hostname, ram_gb |-> server.ram_gb, sites |-> server.sites,
     current_sites |-> server.current_sites,
     recommended_max |-> server.recommended_max,
     status |-> DumpStatus(server.status)]

\* the document save_inventory writes
save_inventory(ss, svs) ==
    LET so == KeyOrder(DOMAIN ss)
        vo == KeyOrder(DOMAIN svs)
    IN [exists |-> TRUE,
        sites |-> [i \in 1..Len(so) |-> DumpSite(so[i], ss[so[i]])],
        servers |-> [i \in 1..Len(vo) |-> DumpServer(vo[i], svs[vo[i]])]]

RECURSIVE LoadSites(_, _)
LoadSites(ss, data) ==
    IF data = <<>> THEN ss
    ELSE LET j == Head(data) IN
         LoadSites(IF ValidSiteData(j) THEN Put(ss, Normalize(j.domain), SiteFromData(j))
                   ELSE ss,
                   Tail(data))

RECURSIVE LoadServers(_, _)
LoadServers(svs, data) ==
    IF data = <<>> THEN svs
    ELSE LET j == Head(data) IN
         LoadServers(IF ValidServerData(j)
                     THEN Put(svs, Normalize(j.hostname), ServerFromData(j))
                     ELSE svs,
                     Tail(data))

\* load_inventory into a service holding ss and svs, from document doc
load_inventory(ss, svs, doc) ==
    IF ~doc.exists THEN [sites |-> ss, servers |-> svs]
    ELSE [sites |-> LoadSites(ss, doc.sites), servers |-> LoadServers(svs, doc.servers)]

\* the columns import_from_csv requires
required_columns_domain_only == {"domain"}

required_columns == {"domain", "server"}

ImportCsvRow_keeping_site(acc, row, columns) ==
    IF /\ "domain" \in columns
       /\ "server" \in columns
       /\ ValidName(row.domain)
       /\ ValidName(row.server)
       /\ ("container_name" \in columns => ValidOptionalStr(row.container_name))
    THEN LET domain == Normalize(row.domain)
             server == Normalize(row.server)
             site == IF domain \in DOMAIN acc.sites
                     THEN [acc.sites[domain] EXCEPT !.server = server]
                     ELSE Site(server, NoneV, NoneV, NoTraffic, NoneV)
             svs == ensure_server_exists(acc.servers, server)
         IN [sites |-> Put(acc.sites, domain, site),
             servers |-> [svs EXCEPT ![server] = add_site(@, domain)],
             imported |-> acc.imported + 1, failed |-> acc.failed]
    ELSE [acc EXCEPT !.failed = @ + 1]

\* one iteration of import_from_csv's loop; a row is a record of raw cells
ImportCsvRow(acc, row, columns) ==
    IF /\ "domain" \in columns
       /\ "server" \in columns
       /\ ValidName(row.domain)
       /\ ValidName(row.server)
       /\ ("container_name" \in columns => ValidOptionalStr(row.container_name))
    THEN LET domain == Normalize(row.domain)
             site == Site(Normalize(row.server), NoneV, NoneV, NoTraffic, NoneV)
             svs == ensure_server_exists(acc.servers, site.server)
         IN [sites |-> Put(acc.sites, domain, site),
             servers |-> [svs EXCEPT ![site.server] = add_site(@, domain)],
             imported |-> acc.imported + 1, failed |-> acc.failed]
    ELSE [acc EXCEPT !.failed = @ + 1]

RECURSIVE ImportCsvLoop(_, _, _)
ImportCsvLoop(acc, rows, columns) ==
    IF rows = <<>> THEN acc
    ELSE ImportCsvLoop(ImportCsvRow(acc, Head(rows), columns), Tail(rows), columns)

import_from_csv(ss, svs, csv) ==
    IF ~(required_columns \subseteq csv.columns)
    THEN [sites |-> ss, servers |-> svs, raised |-> "ValueError", imported |-> 0, failed |-> 0]
    ELSE LET r == ImportCsvLoop([sites |-> ss, servers |-> svs, imported |-> 0, failed |-> 0],
                                csv.rows, csv.columns)
         IN [sites |-> r.sites,
             servers |-> [h \in DOMAIN r.servers |-> update_capacity_status(r.servers[h])],
             raised |-> NoneV, imported |-> r.imported, failed |-> r.failed]

\* one iteration of import_from_json's loop
ImportJsonRow(acc, j) ==
    IF ValidSiteData(j)
    THEN LET domain == Normalize(j.domain)
             site == SiteFromData(j)
             svs == ensure_server_exists(acc.servers, site.server)
         IN [sites |-> Put(acc.sites, domain, site),
             servers |-> [svs EXCEPT ![site.server] = add_site(@, domain)],
             imported |-> acc.imported + 1, failed |-> acc.failed]
    ELSE [acc EXCEPT !.failed = @ + 1]

RECURSIVE ImportJsonLoop_abort(_, _)
ImportJsonLoop_abort(acc, rows) ==
    IF rows = <<>> THEN acc
    ELSE IF ~ValidSiteData(Head(rows)) THEN [acc EXCEPT !.failed = @ + 1]
    ELSE ImportJsonLoop_abort(ImportJsonRow(acc, Head(rows)), Tail(rows))

RECURSIVE ImportJsonLoop(_, _)
ImportJsonLoop(acc, rows) ==
    IF rows = <<>> THEN acc
    ELSE ImportJsonLoop(ImportJsonRow(acc, Head(rows)), Tail(rows))

import_from_json(ss, svs, rows) ==
    ImportJsonLoop([sites |-> ss, servers |-> svs, imported |-> 0, failed |-> 0], rows)

\* ------------------------------------------------------------------ deployer

PENDING == "pending"

COMPLETED == "completed"

FAILED == "failed"

\* the bind mounts _add_volume_mounts adds
MountApache == "./mpm_prefork.conf:/etc/apache2/mods-available/mpm_prefork.conf"

MountFpm == "./php-fpm-pool.conf:/usr/local/etc/php-fpm.d/www.conf"

MountLimits == "./php-limits.ini:/usr/local/etc/php/conf.d/99-limits.ini"

volume_mounts == <<MountApache, MountFpm, MountLimits>>

\* other entries of a volumes list: an unrelated mount, a mount of another
\* host file on one of the three container paths, and a mount on a container
\* path that only starts with one of them
MountContent == "./wp-content:/var/www/html/wp-content"

MountCustom == "./custom.conf:/etc/apache2/mods-available/mpm_prefork.conf"

MountLonger == "./old.ini:/usr/local/etc/php/conf.d/99-limits.ini.bak"

\* any(mount.split(":")[1] in str(v) for mount in volume_mounts): v contains
\* one of the three container paths as a substring
ContainsTarget(v) == v \in {MountApache, MountFpm, MountLimits, MountCustom, MountLonger}

\* v contains "mpm_prefork.conf:/etc/apache2/mods-available/mpm_prefork.conf"
ContainsMarker(v) == v = MountApache

\* A docker-compose.yml: whether the file exists, whether it parses to a
\* mapping with a services key, its services in order (wp: container_name
\* starts with "wp_"), and whether its text holds the marker outside the
\* volumes lists (in a comment). NoCompose is the absent file.
NoCompose == [exists |-> FALSE, valid |-> FALSE, services |-> <<>>, marker_text |-> FALSE]

Compose(svcs, marker_text) ==
    [exists |-> TRUE, valid |-> TRUE, services |-> svcs, marker_text |-> marker_text]

Service(wp, volumes) == [wp |-> wp, volumes |-> volumes]

\* a file that yaml.safe_load reads as nothing or as a mapping without services
InvalidCompose(marker_text) ==
    [exists |-> TRUE, valid |-> FALSE, services |-> <<>>, marker_text |-> marker_text]

NoFiles == [apache |-> NoneV, php_fpm |-> NoneV, php_limits |-> NoneV]

\* a site directory: docker-compose.yml, docker-compose.yml.bak, the three
\* copied configuration files (the tier each was copied from) and whether the
\* container stack is up
SiteDir(compose) == [compose |-> compose, backup |-> NoCompose, files |-> NoFiles, up |-> TRUE]

\* the marker is in the text of the file; a file that cannot be read counts
\* as not configured
is_configured(compose) ==
    /\ compose.exists
    /\ \/ compose.marker_text
       \/ \E i \in 1..Len(compose.services) :
             \E k \in 1..Len(compose.services[i].volumes) :
                 ContainsMarker(compose.services[i].volumes[k])

has_wordpress_container(compose) ==
    /\ compose.exists
    /\ compose.valid
    /\ \E i \in 1..Len(compose.services) : compose.services[i].wp

ConfigTypes == <<"apache", "php_fpm", "php_limits">>

TierValue(tier) == CASE tier = HIGH -> "1" [] tier = MEDIUM -> "2" [] tier = LOW -> "3"

BaseName(type) ==
    CASE type = "apache" -> "mpm_prefork.conf"
      [] type = "php_fpm" -> "php-fpm-pool.conf"
      [] type = "php_limits" -> "php-limits.ini"

\* the file names under config_dir, by config type
get_tier_config_files(tier) ==
    [type \in {"apache", "php_fpm", "php_limits"} |-> BaseName(type) \o ".tier" \o TierValue(tier)]

\* [v for v in service["volumes"] if not any(...)]
WithoutTargets(volumes) ==
    LET F[i \in 0..Len(volumes)] ==
            IF i = 0 THEN <<>>
            ELSE IF ContainsTarget(volumes[i]) THEN F[i - 1]
            ELSE Append(F[i - 1], volumes[i])
    IN F[Len(volumes)]

\* the volumes of one wp_ service after _add_volume_mounts
NewVolumes_filter_last(volumes) == WithoutTargets(volumes \o volume_mounts)

NewVolumes(volumes) == WithoutTargets(volumes) \o volume_mounts

\* the file _add_volume_mounts writes for a valid compose file: yaml.dump of
\* the loaded data, which holds no comment
add_volume_mounts(compose) ==
    [compose EXCEPT
        !.services = [i \in 1..Len(compose.services) |->
                        IF compose.services[i].wp
                        THEN [compose.services[i] EXCEPT !.volumes = NewVolumes(@)]
                        ELSE compose.services[i]],
        !.marker_text = FALSE]

Done(sd, status, message, io) ==
    [dir |-> sd, status |-> status, error_message |-> message, io |-> io,
     exception |-> NoneV, raised |-> FALSE]

\* an exception leaving the try block with the given message: the action is
\* still PENDING and the exception is on its way out of the call
Raised(sd, message, io) ==
    [dir |-> sd, status |-> PENDING, error_message |-> NoneV, io |-> io,
     exception |-> message, raised |-> TRUE]

Except_reraise(r) == r

\* except Exception as e: the action becomes FAILED with str(e) and is
\* returned; nothing leaves the call
Except(r) ==
    IF r.exception = NoneV THEN r
    ELSE [r EXCEPT !.status = FAILED, !.error_message = r.exception, !.raised = FALSE]

CopyFrom_skipping_missing(files, i, tier, cfg) ==
    [files |-> [type \in DOMAIN files |-> tier], missing |-> NoneV, copied |-> TRUE]

\* _copy_config_files, from the i-th config type on: the directory after it,
\* and the source file found missing (NoneV if none)
RECURSIVE CopyFrom(_, _, _, _)
CopyFrom(files, i, tier, cfg) ==
    IF i > Len(ConfigTypes) THEN [files |-> files, missing |-> NoneV, copied |-> TRUE]
    ELSE LET type == ConfigTypes[i]
             source == get_tier_config_files(tier)[type]
         IN IF source \notin cfg
            THEN [files |-> files, missing |-> source, copied |-> i > 1]
            ELSE CopyFrom([files EXCEPT ![type] = tier], i + 1, tier, cfg)

\* the restart step; outcome is what docker compose does: "ok", "down_fails"
\* or "up_fails"
RestartStep(sd, io, outcome) ==
    IF outcome = "ok"
    THEN Done([sd EXCEPT !.up = TRUE], COMPLETED, NoneV, io \cup {"down", "up"})
    ELSE IF outcome = "down_fails"
    THEN Raised(sd, "Failed to restart containers", io)
    ELSE Raised([sd EXCEPT !.up = FALSE], "Failed to restart containers",
                io \cup {"down"})

Backup_always(sd) == [sd EXCEPT !.backup = sd.compose]

\* if not backup_file.exists(): shutil.copy2(compose_file, backup_file)
Backup(sd) == IF sd.backup.exists THEN sd ELSE [sd EXCEPT !.backup = sd.compose]

LivePath_write_first(sd, cfg, tier, restart, outcome) ==
    LET sd1 == Backup(sd)
        c == CopyFrom(sd1.files, 1, tier, cfg)
        sd2 == [sd1 EXCEPT !.files = c.files]
        sd3 == IF sd2.compose.exists /\ sd2.compose.valid
               THEN [sd2 EXCEPT !.compose = add_volume_mounts(@)] ELSE sd2
    IN IF c.missing # NoneV
       THEN Raised(sd3, "Configuration file not found: " \o c.missing, {"backup", "copy", "write"})
       ELSE Done(sd3, COMPLETED, NoneV, {"backup", "copy", "write"})

\* deploy_to_site past the two early returns
LivePath(sd, cfg, tier, restart, outcome) ==
    IF ~sd.backup.exists /\ ~sd.compose.exists
    THEN Raised(sd, "No such file or directory", {})
    ELSE LET io1 == IF sd.backup.exists THEN {} ELSE {"backup"}
             sd1 == Backup(sd)
             c == CopyFrom(sd1.files, 1, tier, cfg)
             io2 == IF c.copied THEN io1 \cup {"copy"} ELSE io1
             sd2 == [sd1 EXCEPT !.files = c.files]
         IN IF c.missing # NoneV
            THEN Raised(sd2, "Configuration file not found: " \o c.missing, io2)
            ELSE IF ~sd2.compose.exists
            THEN Raised(sd2, "No such file or directory", io2)
            ELSE IF ~sd2.compose.valid
            THEN Raised(sd2, "Invalid docker-compose.yml structure", io2)
            ELSE LET sd3 == [sd2 EXCEPT !.compose = add_volume_mounts(@)]
                     io3 == io2 \cup {"write"}
                 IN IF restart THEN RestartStep(sd3, io3, outcome)
                    ELSE Done(sd3, COMPLETED, NoneV, io3)

deploy_to_site_dry_run_first(sd, cfg, tier, dry_run, overwrite, restart, outcome) ==
    Except(IF dry_run
           THEN Done(sd, COMPLETED, "Dry run - no changes made", {})
           ELSE IF is_configured(sd.compose) /\ ~overwrite
           THEN Done(sd, COMPLETED, "Already configured (use --overwrite to update)", {})
           ELSE LivePath(sd, cfg, tier, restart, outcome))

deploy_to_site_backup_first(sd, cfg, tier, dry_run, overwrite, restart, outcome) ==
    IF is_configured(sd.compose) /\ ~overwrite
    THEN Done(sd, COMPLETED, "Already configured (use --overwrite to update)", {})
    ELSE IF dry_run
    THEN IF sd.backup.exists \/ ~sd.compose.exists
         THEN Done(sd, COMPLETED, "Dry run - no changes made", {})
         ELSE Done([sd EXCEPT !.backup = sd.compose], COMPLETED,
                   "Dry run - no changes made", {"backup"})
    ELSE Except(LivePath(sd, cfg, tier, restart, outcome))

\* the site directory after the call, the returned action's status and
\* error_message, and the file and process operations the call performed
deploy_to_site(sd, cfg, tier, dry_run, overwrite, restart, outcome) ==
    Except(IF is_configured(sd.compose) /\ ~overwrite
           THEN Done(sd, COMPLETED, "Already configured (use --overwrite to update)", {})
           ELSE IF dry_run
           THEN Done(sd, COMPLETED, "Dry run - no changes made", {})
           ELSE LivePath(sd, cfg, tier, restart, outcome))

\* the directories under search_dir, in the order of sorted() on their paths
PathOrder == <<"alpha", "beta", "gamma">>

site_path(name) == "/var/opt/sites/" \o name

\* pattern.strip()
Strip(pattern) == IF pattern = " beta " THEN "beta" ELSE pattern

\* pattern in site_name, for the patterns and directory names used here
InName(pattern, name) ==
    CASE pattern = "alp" -> name = "alpha"
      [] pattern = "beta" -> name = "beta"
      [] OTHER -> FALSE

\* pattern in site_path
InPath(pattern, name) == InName(pattern, name) \/ pattern = "sites"

\* Optional[List[str]]: None, or a list of patterns
NoPatterns == [none |-> TRUE, list |-> <<>>]

PatternList(list) == [none |-> FALSE, list |-> list]

\* the truth value of an Optional[List[str]]
Truthy(patterns) == ~patterns.none /\ patterns.list # <<>>

should_process_include_first(name, include_patterns, exclude_patterns) ==
    IF /\ Truthy(include_patterns)
       /\ \E i \in 1..Len(include_patterns.list) :
             LET pattern == Strip(include_patterns.list[i])
             IN InName(pattern, name) \/ InPath(pattern, name)
    THEN TRUE
    ELSE IF /\ Truthy(exclude_patterns)
            /\ \E i \in 1..Len(exclude_patterns.list) :
                  LET pattern == Strip(exclude_patterns.list[i])
                  IN InName(pattern, name) \/ InPath(pattern, name)
    THEN FALSE
    ELSE ~Truthy(include_patterns)

should_process(name, include_patterns, exclude_patterns) ==
    IF /\ Truthy(exclude_patterns)
       /\ \E i \in 1..Len(exclude_patterns.list) :
             LET pattern == Strip(exclude_patterns.list[i])
             IN InName(pattern, name) \/ InPath(pattern, name)
    THEN FALSE
    ELSE IF Truthy(include_patterns)
    THEN \E i \in 1..Len(include_patterns.list) :
             LET pattern == Strip(include_patterns.list[i])
             IN InName(pattern, name) \/ InPath(pattern, name)
    ELSE TRUE

\* sorted(sites) of a set of site directories
sorted(S) ==
    LET F[i \in 0..Len(PathOrder)] ==
            IF i = 0 THEN <<>>
            ELSE IF PathOrder[i] \in S THEN Append(F[i - 1], PathOrder[i]) ELSE F[i - 1]
    IN F[Len(PathOrder)]

\* the names of the directories find_wordpress_sites returns, in order; dirs
\* maps each directory under search_dir to its files
find_wordpress_sites(dirs, include_patterns, exclude_patterns) ==
    sorted({name \in DOMAIN dirs :
               /\ dirs[name].compose.exists
               /\ has_wordpress_container(dirs[name].compose)
               /\ should_process(name, include_patterns, exclude_patterns)})

\* the loop of the deploy command over the sites found: the directories
\* after it and the (site name, action) pairs in results
RECURSIVE DeployLoop_stop_on_failure(_, _, _, _, _, _, _, _, _)
DeployLoop_stop_on_failure(dirs, cfg, names, tier, dry_run, overwrite, restart, outcomes, results) ==
    IF names = <<>> \/ (results # <<>> /\ results[Len(results)].status = FAILED)
    THEN [dirs |-> dirs, results |-> results]
    ELSE LET n == Head(names)
             r == deploy_to_site(dirs[n], cfg, tier, dry_run, overwrite, restart, outcomes[n])
         IN DeployLoop_stop_on_failure(
                [dirs EXCEPT ![n] = r.dir], cfg, Tail(names), tier, dry_run, overwrite,
                restart, outcomes,
                Append(results, [site |-> n, status |-> r.status,
                                 error_message |-> r.error_message]))

RECURSIVE DeployLoop(_, _, _, _, _, _, _, _, _)
DeployLoop(dirs, cfg, names, tier, dry_run, overwrite, restart, outcomes, results) ==
    IF names = <<>> THEN [dirs |-> dirs, results |-> results]
    ELSE LET n == Head(names)
             r == deploy_to_site(dirs[n], cfg, tier, dry_run, overwrite, restart, outcomes[n])
         IN DeployLoop([dirs EXCEPT ![n] = r.dir], cfg, Tail(names), tier, dry_run,
                       overwrite, restart, outcomes,
                       Append(results, [site |-> n, status |-> r.status,
                                        error_message |-> r.error_message]))

\* "Already configured" in error_message, "Dry run" in error_message
IsAlreadyConfigured(message) == message = "Already configured (use --overwrite to update)"

IsDryRun(message) == message = "Dry run - no changes made"

\* the three counters of the summary
RECURSIVE Summary(_)
Summary(results) ==
    IF results = <<>> THEN [success |-> 0, skipped |-> 0, failed |-> 0]
    ELSE LET action == Head(results)
             rest == Summary(Tail(results))
         IN IF action.status = COMPLETED
            THEN IF IsAlreadyConfigured(action.error_message)
                 THEN [rest EXCEPT !.skipped = @ + 1]
                 ELSE [rest EXCEPT !.success = @ + 1]
            ELSE [rest EXCEPT !.failed = @ + 1]

\* deploy execute: the directories after the run, the sites found, the
\* results and the summary; nothing is printed when no site is found
execute(dirs, cfg, tier, include_patterns, exclude_patterns, dry_run, no_dry_run, overwrite, restart, outcomes) ==
    LET is_dry_run == dry_run /\ ~no_dry_run
        found == find_wordpress_sites(dirs, include_patterns, exclude_patterns)
    IN IF found = <<>>
       THEN [dirs |-> dirs, found |-> found, results |-> <<>>, printed |-> FALSE,
             summary |-> Summary(<<>>)]
       ELSE LET r == DeployLoop(dirs, cfg, found, tier, is_dry_run, overwrite, restart,
                                outcomes, <<>>)
            IN [dirs |-> r.dirs, found |-> found, results |-> r.results, printed |-> TRUE,
                summary |-> Summary(r.results)]

\* ------------------------------------------------------------------- inputs

\* rows of a CSV file: a valid one; one whose cells need normalising, that
\* names another server and has an empty container_name cell; one with an
\* empty server cell
CsvRows ==
    { [domain |-> "a.com", server |-> "h1", container_name |-> "wp_a"],
      [domain |-> " A.com", server |-> "H2 ", container_name |-> NaN],
      [domain |-> "b.com", server |-> NaN, container_name |-> "wp_b"] }

ColumnSets ==
    { {"domain", "server", "container_name"}, {"domain", "server"},
      {"domain", "container_name"}, {"server"} }

\* site records of a JSON import file: one with tiers and resources, one
\* without, one without server and with a tier that is none
JsonRows ==
    { [domain |-> "a.com", server |-> "h1", current_tier |-> "2",
       assigned_tier |-> "1", traffic |-> 1, resources |-> "cfg"],
      [domain |-> "b.com", server |-> "h2", current_tier |-> Missing,
       assigned_tier |-> "null", traffic |-> MaxVisitors, resources |-> NoneV],
      [domain |-> "b.com", server |-> Missing, current_tier |-> "null",
       assigned_tier |-> "7", traffic |-> NoTraffic, resources |-> NoneV] }

RECURSIVE SeqsUpTo(_, _)
SeqsUpTo(S, n) ==
    IF n = 0 THEN {<<>>}
    ELSE LET shorter == SeqsUpTo(S, n - 1)
         IN shorter \cup {Append(q, x) : q \in {r \in shorter : Len(r) = n - 1}, x \in S}

\* the domains set_tier is called with: in the inventory or not, and one not
\* normalised
LookupDomains == {"a.com", "b.com", " A.com"}

\* tier1_min_visitors and tier2_min_visitors as configured
ThresholdPairs == {<<2, 1>>}

NoFile == [exists |-> FALSE]

NoOp == [op |-> "init"]

\* no save_inventory call is between its open() and the end of its with block
NoSave == [active |-> FALSE]

\* ------------------------------------------------- inventory and classifier

\* InventoryService(data_dir) and ClassifierService(inventory, t1, t2): an
\* empty inventory, no inventory file yet, thresholds as configured
Init ==
    /\ sites = EmptyMap
    /\ servers = EmptyMap
    /\ \E p \in ThresholdPairs : tier1_threshold = p[1] /\ tier2_threshold = p[2]
    /\ inventory_file = NoFile
    /\ fs = EmptyMap
    /\ config_dir = {}
    /\ saving = NoSave
    /\ lastOp = NoOp

ClassifyAll ==
    \E overwrite \in BOOLEAN :
        LET r == classify_all(sites, overwrite, tier1_threshold, tier2_threshold) IN
        /\ sites' = r.sites
        /\ lastOp' = [op |-> "classify_all", overwrite |-> overwrite, counts |-> r.counts]
        /\ UNCHANGED <<servers, tier1_threshold, tier2_threshold, inventory_file, fs, config_dir, saving>>

SetTier ==
    \E domain \in LookupDomains, tier \in Tier :
        LET r == set_tier(sites, domain, tier) IN
        /\ sites' = r.sites
        /\ lastOp' = [op |-> "set_tier", domain |-> domain, tier |-> tier,
                      result |-> r.result]
        /\ UNCHANGED <<servers, tier1_threshold, tier2_threshold, inventory_file, fs, config_dir, saving>>

ImportFromCsv ==
    \E columns \in ColumnSets, rows \in SeqsUpTo(CsvRows, MaxRows) :
        LET r == import_from_csv(sites, servers, [columns |-> columns, rows |-> rows]) IN
        /\ sites' = r.sites
        /\ servers' = r.servers
        /\ lastOp' = [op |-> "import_from_csv", columns |-> columns, rows |-> Len(rows),
                      raised |-> r.raised, imported |-> r.imported, failed |-> r.failed]
        /\ UNCHANGED <<tier1_threshold, tier2_threshold, inventory_file, fs, config_dir, saving>>

ImportFromJson ==
    \E rows \in SeqsUpTo(JsonRows, MaxRows) :
        LET r == import_from_json(sites, servers, rows) IN
        /\ sites' = r.sites
        /\ servers' = r.servers
        /\ lastOp' = [op |-> "import_from_json", rows |-> Len(rows),
                      imported |-> r.imported, failed |-> r.failed]
        /\ UNCHANGED <<tier1_threshold, tier2_threshold, inventory_file, fs, config_dir, saving>>

Next ==
    \/ ClassifyAll
    \/ SetTier
    \/ ImportFromCsv
    \/ ImportFromJson

Spec == Init /\ [][Next]_vars

Assigned(ss) == {d \in DOMAIN ss : ss[d].assigned_tier # NoneV}

\* C2: classify_all(overwrite=false) leaves every site that has an
\* assigned_tier untouched and counts it as skipped; run right after another
\* classify_all(overwrite=false) it classifies nothing, skips every site and
\* changes no site.
C2_ClassifyAllKeepsAssigned ==
    [][(lastOp'.op = "classify_all" /\ ~lastOp'.overwrite) =>
        /\ DOMAIN sites' = DOMAIN sites
        /\ \A d \in Assigned(sites) : sites'[d] = sites[d]
        /\ lastOp'.counts.skipped = Cardinality(Assigned(sites))
        /\ (lastOp.op = "classify_all" /\ ~lastOp.overwrite) =>
              /\ lastOp'.counts.classified = 0
              /\ lastOp'.counts.skipped = Cardinality(DOMAIN sites)
              /\ sites' = sites]_vars

\* a run that skipped every site, one of them holding a tier that
\* classify_site would not give (set by set_tier or imported)
C2_Witness ==
    /\ lastOp.op = "classify_all"
    /\ ~lastOp.overwrite
    /\ lastOp.counts.classified = 0
    /\ lastOp.counts.skipped = Cardinality(DOMAIN sites)
    /\ Cardinality(DOMAIN sites) = 2
    /\ \E d \in DOMAIN sites :
          sites[d].assigned_tier # classify_site(sites[d], tier1_threshold, tier2_threshold)

\* C3: after classify_all(overwrite=true) every site's assigned_tier is
\* classify_site(site), skipped = 0, classified = number of sites, and
\* tier1 + tier2 + tier3 = number of sites.
C3_ClassifyAllOverwrite ==
    (lastOp.op = "classify_all" /\ lastOp.overwrite) =>
        /\ \A d \in DOMAIN sites :
              sites[d].assigned_tier
                  = classify_site(sites[d], tier1_threshold, tier2_threshold)
        /\ lastOp.counts.skipped = 0
        /\ lastOp.counts.classified = Cardinality(DOMAIN sites)
        /\ lastOp.counts.tier1 + lastOp.counts.tier2 + lastOp.counts.tier3
              = Cardinality(DOMAIN sites)
        /\ lastOp.counts.tier1 = Cardinality({d \in DOMAIN sites : sites[d].assigned_tier = HIGH})
        /\ lastOp.counts.tier2 = Cardinality({d \in DOMAIN sites : sites[d].assigned_tier = MEDIUM})
        /\ lastOp.counts.tier3 = Cardinality({d \in DOMAIN sites : sites[d].assigned_tier = LOW})

\* an overwriting run over two sites of different tiers
C3_Witness ==
    /\ lastOp.op = "classify_all"
    /\ lastOp.overwrite
    /\ lastOp.counts.classified = 2
    /\ lastOp.counts.tier1 = 1
    /\ lastOp.counts.tier2 = 1

\* C9: import_from_csv on a CSV without the domain or the server column
\* raises before any row is processed: sites and servers are unchanged.
C9_CsvMissingColumnRaises ==
    [][(lastOp'.op = "import_from_csv"
          /\ ("domain" \notin lastOp'.columns \/ "server" \notin lastOp'.columns)) =>
        /\ lastOp'.raised = "ValueError"
        /\ lastOp'.imported = 0
        /\ lastOp'.failed = 0
        /\ sites' = sites
        /\ servers' = servers]_vars

\* such a file, with rows, imported into an inventory that holds sites
C9_Witness ==
    /\ lastOp.op = "import_from_csv"
    /\ "server" \notin lastOp.columns
    /\ lastOp.rows = MaxRows
    /\ lastOp.raised = "ValueError"
    /\ DOMAIN sites # {}

\* C10: set_tier fails with a not-found error and changes nothing when the
\* domain is not in the inventory; otherwise it sets that site's
\* assigned_tier and changes no other site and no other field.
C10_SetTier ==
    [][lastOp'.op = "set_tier" =>
        LET d == lastOp'.domain IN
        /\ servers' = servers
        /\ DOMAIN sites' = DOMAIN sites
        /\ \A e \in DOMAIN sites \ {d} : sites'[e] = sites[e]
        /\ IF d \notin DOMAIN sites
           THEN lastOp'.result = "ValueError"
           ELSE /\ lastOp'.result = "ok"
                /\ sites'[d].assigned_tier = lastOp'.tier
                /\ sites'[d].server = sites[d].server
                /\ sites'[d].current_tier = sites[d].current_tier
                /\ sites'[d].traffic = sites[d].traffic
                /\ sites'[d].resources = sites[d].resources]_vars

\* a tier set over a different one that was assigned before
C10_Witness ==
    /\ lastOp.op = "set_tier"
    /\ lastOp.result = "ok"
    /\ sites[lastOp.domain].assigned_tier = LOW
    /\ sites[lastOp.domain].current_tier = MEDIUM
    /\ sites[lastOp.domain].traffic = 1

\* -------------------------------------------------------- save and load

\* A service that has imported one JSON file into an empty inventory.
InitPersist ==
    /\ \E rows \in SeqsUpTo(JsonRows, MaxRows) :
          LET r == import_from_json(EmptyMap, EmptyMap, rows) IN
          sites = r.sites /\ servers = r.servers
    /\ \E p \in ThresholdPairs : tier1_threshold = p[1] /\ tier2_threshold = p[2]
    /\ inventory_file = NoFile
    /\ fs = EmptyMap
    /\ config_dir = {}
    /\ saving = NoSave
    /\ lastOp = NoOp

SaveInventory ==
    /\ inventory_file' = save_inventory(sites, servers)
    /\ lastOp' = [op |-> "save_inventory"]
    /\ UNCHANGED <<sites, servers, tier1_threshold, tier2_threshold, fs, config_dir, saving>>

\* load_inventory, on the running service or on a fresh InventoryService
\* (every command line invocation builds a fresh one and loads)
LoadInventory ==
    \E fresh \in BOOLEAN :
        LET r == IF fresh THEN load_inventory(EmptyMap, EmptyMap, inventory_file)
                 ELSE load_inventory(sites, servers, inventory_file) IN
        /\ sites' = r.sites
        /\ servers' = r.servers
        /\ lastOp' = [op |-> "load_inventory", fresh |-> fresh]
        /\ UNCHANGED <<tier1_threshold, tier2_threshold, inventory_file, fs, config_dir, saving>>

NextPersist ==
    \/ SaveInventory
    \/ LoadInventory
    \/ SetTier
    \/ ClassifyAll

SpecPersist == InitPersist /\ [][NextPersist]_vars

\* C8: save_inventory followed by load_inventory into a fresh
\* InventoryService reproduces every site (domain, server, current_tier,
\* assigned_tier) and every server (hostname, sites list, capacity).
C8_SaveLoadRoundTrip ==
    [][(lastOp.op = "save_inventory" /\ lastOp'.op = "load_inventory" /\ lastOp'.fresh) =>
        /\ DOMAIN sites' = DOMAIN sites
        /\ \A d \in DOMAIN sites :
              /\ sites'[d].server = sites[d].server
              /\ sites'[d].current_tier = sites[d].current_tier
              /\ sites'[d].assigned_tier = sites[d].assigned_tier
        /\ DOMAIN servers' = DOMAIN servers
        /\ \A h \in DOMAIN servers :
              /\ servers'[h].sites = servers[h].sites
              /\ servers'[h].current_sites = servers[h].current_sites
              /\ servers'[h].recommended_max = servers[h].recommended_max
              /\ servers'[h].status = servers[h].status]_vars

\* a fresh service that loaded a saved inventory of two sites on two
\* servers, with tiers set and unset
C8_Witness ==
    /\ lastOp.op = "load_inventory"
    /\ lastOp.fresh
    /\ inventory_file = save_inventory(sites, servers)
    /\ Cardinality(DOMAIN sites) = 2
    /\ Cardinality(DOMAIN servers) = 2
    /\ \E d \in DOMAIN sites : sites[d].assigned_tier = MEDIUM /\ sites[d].current_tier = MEDIUM
    /\ \E d \in DOMAIN sites : sites[d].current_tier = NoneV

\* ------------------------------------------- save next to a reader

\* inventory.json between open(inventory_file, "w"), which truncates it, and
\* the first flush of json.dump's output
Truncated == [exists |-> TRUE, text |-> "empty"]

\* inventory.json after a flush of the write buffer that is not the last
PartlyWritten == [exists |-> TRUE, text |-> "partial"]

\* open(self.inventory_file, "w")
SaveOpen ==
    /\ ~saving.active
    /\ saving' = [active |-> TRUE, previous |-> inventory_file,
                  document |-> save_inventory(sites, servers)]
    /\ inventory_file' = Truncated
    /\ lastOp' = [op |-> "save_inventory.open"]
    /\ UNCHANGED <<sites, servers, tier1_threshold, tier2_threshold, fs, config_dir>>

\* json.dump fills the buffer of f, which is written out when it is full; a
\* document with no site and no server is shorter than any buffer
SaveFlush ==
    /\ saving.active
    /\ inventory_file = Truncated
    /\ saving.document.sites # <<>>
    /\ inventory_file' = PartlyWritten
    /\ lastOp' = [op |-> "save_inventory.flush"]
    /\ UNCHANGED <<sites, servers, tier1_threshold, tier2_threshold, fs, config_dir, saving>>

\* the end of the with block: the rest is written and f is closed
SaveClose ==
    /\ saving.active
    /\ inventory_file' = saving.document
    /\ saving' = NoSave
    /\ lastOp' = [op |-> "save_inventory"]
    /\ UNCHANGED <<sites, servers, tier1_threshold, tier2_threshold, fs, config_dir>>

\* another process opens inventory.json and reads it to the end
ReadInventoryFile ==
    /\ lastOp' = [op |-> "read_inventory_file", observed |-> inventory_file,
                  saving |-> saving]
    /\ UNCHANGED <<sites, servers, tier1_threshold, tier2_threshold, inventory_file,
                   fs, config_dir, saving>>

\* the saving process is single-threaded: it changes the inventory only
\* between two saves
NextSaveReader ==
    \/ SaveOpen
    \/ SaveFlush
    \/ SaveClose
    \/ ReadInventoryFile
    \/ (~saving.active /\ SetTier)

SpecSaveReader == InitPersist /\ [][NextSaveReader]_vars

\* C12: a reader of inventory.json while a save_inventory is in progress
\* observes the complete previous document or the complete new document,
\* never an empty or partly written file.
C12_Claimed_SaveIsAtomic ==
    (lastOp.op = "read_inventory_file" /\ lastOp.saving.active) =>
        lastOp.observed \in {lastOp.saving.previous, lastOp.saving.document}

\* ------------------------------------------------- servers and their sites

\* domains given to Server.add_site and Server.remove_site
ServerDomains == {"b.com", "c.com"}

AddSite ==
    \E h \in DOMAIN servers, d \in ServerDomains :
        /\ servers' = [servers EXCEPT ![h] = add_site(@, d)]
        /\ lastOp' = [op |-> "add_site", hostname |-> h, domain |-> d,
                      present |-> d \in Elems(servers[h].sites)]
        /\ UNCHANGED <<sites, tier1_threshold, tier2_threshold, inventory_file,
                       fs, config_dir, saving>>

RemoveSite ==
    \E h \in DOMAIN servers, d \in ServerDomains :
        /\ servers' = [servers EXCEPT ![h] = remove_site(@, d)]
        /\ lastOp' = [op |-> "remove_site", hostname |-> h, domain |-> d,
                      present |-> d \in Elems(servers[h].sites)]
        /\ UNCHANGED <<sites, tier1_threshold, tier2_threshold, inventory_file,
                       fs, config_dir, saving>>

NextServer ==
    \/ ImportFromCsv
    \/ ImportFromJson
    \/ AddSite
    \/ RemoveSite

\* every server of the inventory is created by _ensure_server_exists
SpecServer == Init /\ [][NextServer]_vars

\* C13: for every server created by _ensure_server_exists, after any
\* sequence of add_site, remove_site and imports, capacity.current_sites is
\* the length of the sites list and the list holds no domain twice.
C13_CurrentSitesIsLength ==
    \A h \in DOMAIN servers :
        /\ servers[h].current_sites = Len(servers[h].sites)
        /\ Cardinality(Elems(servers[h].sites)) = Len(servers[h].sites)

\* a remove_site that took a domain out of a list that still holds two, one
\* of them added again by an add_site or an import before
C13_Witness ==
    /\ lastOp.op = "remove_site"
    /\ lastOp.present
    /\ Len(servers[lastOp.hostname].sites) = 2
    /\ servers[lastOp.hostname].current_sites = 2
    /\ "c.com" \in Elems(servers[lastOp.hostname].sites)

\* ------------------------------------------------------------ import by rows

\* the imports with the rows of the file on record
ImportCsvFile ==
    \E columns \in ColumnSets, rows \in SeqsUpTo(CsvRows, MaxRows) :
        LET r == import_from_csv(sites, servers, [columns |-> columns, rows |-> rows]) IN
        /\ sites' = r.sites
        /\ servers' = r.servers
        /\ lastOp' = [op |-> "import_from_csv", columns |-> columns, data |-> rows,
                      raised |-> r.raised, imported |-> r.imported, failed |-> r.failed]
        /\ UNCHANGED <<tier1_threshold, tier2_threshold, inventory_file, fs, config_dir, saving>>

ImportJsonFile ==
    \E rows \in SeqsUpTo(JsonRows, MaxRows) :
        LET r == import_from_json(sites, servers, rows) IN
        /\ sites' = r.sites
        /\ servers' = r.servers
        /\ lastOp' = [op |-> "import_from_json", columns |-> {}, data |-> rows,
                      raised |-> NoneV, imported |-> r.imported, failed |-> r.failed]
        /\ UNCHANGED <<tier1_threshold, tier2_threshold, inventory_file, fs, config_dir, saving>>

NextImport ==
    \/ ImportCsvFile
    \/ ImportJsonFile

SpecImport == Init /\ [][NextImport]_vars

\* whether the i-th row of the import on record passes validation, and the
\* Site it then gives
RowValid(l, i) ==
    IF l.op = "import_from_csv"
    THEN /\ ValidName(l.data[i].domain)
         /\ ValidName(l.data[i].server)
         /\ ("container_name" \in l.columns => ValidOptionalStr(l.data[i].container_name))
    ELSE ValidSiteData(l.data[i])

RowSite(l, i) ==
    IF l.op = "import_from_csv"
    THEN Site(Normalize(l.data[i].server), NoneV, NoneV, NoTraffic, NoneV)
    ELSE SiteFromData(l.data[i])

ValidRows(l) == {i \in 1..Len(l.data) : RowValid(l, i)}

\* the valid rows for a domain, and for a server
RowsOfDomain(l, d) == {i \in ValidRows(l) : Normalize(l.data[i].domain) = d}

RowsOfServer(l, h) == {i \in ValidRows(l) : Normalize(l.data[i].server) = h}

Max(S) == CHOOSE x \in S : \A y \in S : y <= x

\* C14: in import_from_csv (past the column test) and import_from_json every
\* row is handled on its own. A row that fails validation counts as failed
\* and changes no site and no server, and later rows are still read. A valid
\* row stores its Site under the normalised domain, creates its server with
\* the defaults if absent and appends the domain to that server's sites if
\* absent. imported + failed is the number of rows.
C14_ImportRowByRow ==
    [][(lastOp'.op \in {"import_from_csv", "import_from_json"} /\ lastOp'.raised = NoneV) =>
        LET l == lastOp' IN
        /\ l.imported = Cardinality(ValidRows(l))
        /\ l.failed = Len(l.data) - Cardinality(ValidRows(l))
        /\ l.imported + l.failed = Len(l.data)
        /\ DOMAIN sites' = DOMAIN sites \cup {Normalize(l.data[i].domain) : i \in ValidRows(l)}
        /\ \A d \in DOMAIN sites' :
              IF RowsOfDomain(l, d) = {} THEN sites'[d] = sites[d]
              ELSE sites'[d] = RowSite(l, Max(RowsOfDomain(l, d)))
        /\ DOMAIN servers' = DOMAIN servers \cup {Normalize(l.data[i].server) : i \in ValidRows(l)}
        /\ \A h \in DOMAIN servers' :
              LET before == IF h \in DOMAIN servers THEN servers[h]
                            ELSE Server(DefaultRamGb, <<>>, 0, DefaultRecommendedMax,
                                        UNDER_CAPACITY)
                  after == servers'[h]
                  added == {Normalize(l.data[i].domain) : i \in RowsOfServer(l, h)}
              IN /\ after.ram_gb = before.ram_gb
                 /\ after.recommended_max = before.recommended_max
                 /\ SubSeq(after.sites, 1, Len(before.sites)) = before.sites
                 /\ Elems(after.sites) = Elems(before.sites) \cup added
                 /\ Cardinality(Elems(after.sites)) = Len(after.sites)
                 /\ after.current_sites = Len(after.sites)
                 /\ after.status = IF l.op = "import_from_csv"
                                   THEN CapacityStatus(after.current_sites, after.recommended_max)
                                   ELSE before.status]_vars

\* an import whose first row fails and whose second row is stored, on a
\* server that the import creates
C14_Witness ==
    /\ lastOp.op \in {"import_from_csv", "import_from_json"}
    /\ lastOp.raised = NoneV
    /\ Len(lastOp.data) = 2
    /\ ~RowValid(lastOp, 1)
    /\ RowValid(lastOp, 2)
    /\ lastOp.imported = 1
    /\ lastOp.failed = 1
    /\ DOMAIN servers = {Normalize(lastOp.data[2].server)}
    /\ servers[Normalize(lastOp.data[2].server)].sites = <<Normalize(lastOp.data[2].domain)>>
    /\ Normalize(lastOp.data[2].domain) \in DOMAIN sites

\* C26 as claimed: after imports into an empty inventory each site's domain
\* is in the sites list of exactly one server, the one named by the site's
\* server field, so the lists together hold as many domains as there are
\* sites.
C26_Claimed_OneServerPerSite ==
    /\ \A d \in DOMAIN sites : \A h \in DOMAIN servers :
          (d \in Elems(servers[h].sites)) <=> (sites[d].server = h)
    /\ Cardinality({p \in (DOMAIN servers) \X (DOMAIN sites) :
                        p[2] \in Elems(servers[p[1]].sites)})
          = Cardinality(DOMAIN sites)

\* ------------------------------------------------- imports over stored sites

\* CSV files that name a.com, which the JSON files name too: on its server,
\* on another server, on both in turn, and with a row that fails
CsvFilesOverStored ==
    { <<[domain |-> "a.com", server |-> "h1", container_name |-> "wp_a"]>>,
      <<[domain |-> " A.com", server |-> "H2 ", container_name |-> NaN]>>,
      <<[domain |-> "a.com", server |-> "h1", container_name |-> "wp_a"],
        [domain |-> " A.com", server |-> "H2 ", container_name |-> NaN]>>,
      <<[domain |-> "b.com", server |-> NaN, container_name |-> "wp_b"],
        [domain |-> "a.com", server |-> "h1", container_name |-> "wp_a"]>> }

\* import_from_csv, remembering which sites had a tier before
ImportCsvOverStored ==
    \E columns \in ColumnSets, rows \in CsvFilesOverStored :
        LET r == import_from_csv(sites, servers, [columns |-> columns, rows |-> rows]) IN
        /\ sites' = r.sites
        /\ servers' = r.servers
        /\ lastOp' = [op |-> "import_from_csv", columns |-> columns, data |-> rows,
                      raised |-> r.raised, imported |-> r.imported, failed |-> r.failed,
                      had_tier |-> Assigned(sites)]
        /\ UNCHANGED <<tier1_threshold, tier2_threshold, inventory_file, fs, config_dir, saving>>

NextReimport ==
    \/ ImportCsvOverStored
    \/ ImportFromJson
    \/ SetTier
    \/ ClassifyAll

SpecReimport == Init /\ [][NextReimport]_vars

\* C30: import_from_csv of a domain that is in the inventory replaces the
\* stored site: afterwards its assigned_tier, current_tier, traffic and
\* resources are unset, whatever they were, and its server is the one of the
\* last valid row for the domain. A tier set by classify_all, set_tier or a
\* JSON import does not survive.
C30_CsvReimportReplacesSite ==
    [][(lastOp'.op = "import_from_csv" /\ lastOp'.raised = NoneV) =>
        \A d \in DOMAIN sites :
            RowsOfDomain(lastOp', d) # {} =>
                /\ sites'[d].assigned_tier = NoneV
                /\ sites'[d].current_tier = NoneV
                /\ sites'[d].traffic = NoTraffic
                /\ sites'[d].resources = NoneV
                /\ sites'[d].server =
                      Normalize(lastOp'.data[Max(RowsOfDomain(lastOp', d))].server)]_vars

\* a CSV import of a.com, which had an assigned tier, next to b.com, which
\* keeps the tier it has
C30_Witness ==
    /\ lastOp.op = "import_from_csv"
    /\ lastOp.raised = NoneV
    /\ "a.com" \in lastOp.had_tier
    /\ RowsOfDomain(lastOp, "a.com") # {}
    /\ sites["a.com"].assigned_tier = NoneV
    /\ "b.com" \in DOMAIN sites
    /\ sites["b.com"].assigned_tier # NoneV

\* ------------------------------------------------------ update_capacity_status

\* the largest number of sites of the server
MaxCurrentSites == 8

\* values of capacity.recommended_max: with a site count at exactly 80 %,
\* 100 % and 125 % each, and the default
RecommendedMaxValues == {4, 5, DefaultRecommendedMax}

\* one server of an inventory, with any number of sites and any status so far
InitStatus ==
    /\ sites = EmptyMap
    /\ \E n \in 0..MaxCurrentSites, rm \in RecommendedMaxValues, st \in ServerStatus :
          servers = [h \in {"h1"} |->
                        Server(DefaultRamGb, [i \in 1..n |-> ToString(i)], n, rm, st)]
    /\ \E p \in ThresholdPairs : tier1_threshold = p[1] /\ tier2_threshold = p[2]
    /\ inventory_file = NoFile
    /\ fs = EmptyMap
    /\ config_dir = {}
    /\ saving = NoSave
    /\ lastOp = NoOp

UpdateCapacityStatus ==
    \E h \in DOMAIN servers :
        /\ servers' = [servers EXCEPT ![h] = update_capacity_status(@)]
        /\ lastOp' = [op |-> "update_capacity_status", hostname |-> h]
        /\ UNCHANGED <<sites, tier1_threshold, tier2_threshold, inventory_file,
                       fs, config_dir, saving>>

NextStatus == UpdateCapacityStatus

SpecStatus == InitStatus /\ [][NextStatus]_vars

\* C18: after update_capacity_status the status is UNDER_CAPACITY below
\* 80 % utilization, OPTIMAL from 80 % to 100 %, OVER_CAPACITY above 100 % and
\* below 125 %, CRITICAL from 125 %, where utilization is
\* current_sites / recommended_max * 100.
C18_StatusByUtilization ==
    lastOp.op = "update_capacity_status" =>
        LET sv == servers[lastOp.hostname]
            n == sv.current_sites
            rm == sv.recommended_max
        IN /\ sv.status = UNDER_CAPACITY <=> n * 100 < 80 * rm
           /\ sv.status = OPTIMAL <=> (80 * rm <= n * 100 /\ n * 100 <= 100 * rm)
           /\ sv.status = OVER_CAPACITY <=> (100 * rm < n * 100 /\ n * 100 < 125 * rm)
           /\ sv.status = CRITICAL <=> n * 100 >= 125 * rm

\* 5 sites on a server recommended for 4: exactly 125 %
C18_Witness ==
    /\ lastOp.op = "update_capacity_status"
    /\ servers[lastOp.hostname].current_sites = 5
    /\ servers[lastOp.hostname].recommended_max = 4
    /\ servers[lastOp.hostname].status = CRITICAL

\* ------------------------------------------------- imports and server status

\* values of recommended_max of a server read from the inventory file
LoadedRecommendedMax == {1, 2, DefaultRecommendedMax}

\* an inventory loaded from a file that holds the server h1 without sites,
\* its status the one of an empty server
InitLoadedServer ==
    /\ sites = EmptyMap
    /\ \E rm \in LoadedRecommendedMax :
          servers = [h \in {"h1"} |->
                        update_capacity_status(Server(DefaultRamGb, <<>>, 0, rm, UNDER_CAPACITY))]
    /\ \E p \in ThresholdPairs : tier1_threshold = p[1] /\ tier2_threshold = p[2]
    /\ inventory_file = NoFile
    /\ fs = EmptyMap
    /\ config_dir = {}
    /\ saving = NoSave
    /\ lastOp = NoOp

SpecImportStatus == InitLoadedServer /\ [][NextImport]_vars

\* C27 as claimed: when import_from_csv or import_from_json has returned,
\* the status of every server is the one update_capacity_status derives from
\* its current_sites and recommended_max.
C27_Claimed_StatusNeverStale ==
    (lastOp.op \in {"import_from_csv", "import_from_json"} /\ lastOp.raised = NoneV) =>
        \A h \in DOMAIN servers : servers[h] = update_capacity_status(servers[h])

\* ----------------------------------------------------------- recommendations

GetRecommendations ==
    /\ lastOp' = [op |-> "get_recommendations",
                  result |-> get_recommendations(sites, tier1_threshold, tier2_threshold),
                  previous |-> IF lastOp.op = "classify_all"
                               THEN [op |-> lastOp.op, overwrite |-> lastOp.overwrite,
                                     counts |-> lastOp.counts]
                               ELSE [op |-> lastOp.op]]
    /\ UNCHANGED <<sites, servers, tier1_threshold, tier2_threshold, inventory_file,
                   fs, config_dir, saving>>

NextRecommend ==
    \/ ImportFromJson
    \/ SetTier
    \/ ClassifyAll
    \/ GetRecommendations

SpecRecommend == Init /\ [][NextRecommend]_vars

\* the domains of a list of recommendation records
Recommended(result) == {result[i].domain : i \in 1..Len(result)}

\* C23: get_recommendations emits one record for a site exactly when the
\* site has traffic data and an assigned_tier that differs from
\* classify_site(site); the record's recommended_tier is classify_site(site);
\* the call changes no site.
C23_RecommendationsForMismatches ==
    [][lastOp'.op = "get_recommendations" =>
        LET r == lastOp'.result IN
        /\ sites' = sites
        /\ Recommended(r) =
              {d \in DOMAIN sites :
                  /\ sites[d].traffic # NoTraffic
                  /\ sites[d].assigned_tier # NoneV
                  /\ sites[d].assigned_tier #
                        classify_site(sites[d], tier1_threshold, tier2_threshold)}
        /\ Cardinality(Recommended(r)) = Len(r)
        /\ \A i \in 1..Len(r) :
              /\ r[i].recommended_tier =
                    classify_site(sites[r[i].domain], tier1_threshold, tier2_threshold)
              /\ r[i].current_tier = sites[r[i].domain].assigned_tier]_vars

\* one record, for a site without current_tier, next to a site with traffic
\* whose assigned tier is the one classify_site gives
C23_Witness ==
    /\ lastOp.op = "get_recommendations"
    /\ Len(lastOp.result) = 1
    /\ sites[lastOp.result[1].domain].current_tier = NoneV
    /\ Cardinality(DOMAIN sites) = 2
    /\ \E d \in DOMAIN sites \ Recommended(lastOp.result) :
          /\ sites[d].traffic # NoTraffic
          /\ sites[d].assigned_tier # NoneV

\* C29: right after classify_all(overwrite=true), with the thresholds
\* unchanged, get_recommendations returns the empty list; right after
\* classify_all(overwrite=false) it returns records only for sites that had
\* an assigned_tier before that run.
C29_RecommendationsAfterClassifyAll ==
    [][/\ lastOp'.op = "classify_all" =>
             LET r == get_recommendations(sites', tier1_threshold', tier2_threshold') IN
             /\ lastOp'.overwrite => r = <<>>
             /\ ~lastOp'.overwrite => Recommended(r) \subseteq Assigned(sites)
       /\ (lastOp'.op = "get_recommendations" /\ lastOp.op = "classify_all") =>
             /\ lastOp'.result = get_recommendations(sites, tier1_threshold, tier2_threshold)
             /\ lastOp.overwrite => lastOp'.result = <<>>
             /\ \A i \in 1..Len(lastOp'.result) :
                   LET site == sites[lastOp'.result[i].domain] IN
                   site.assigned_tier #
                       classify_site(site, tier1_threshold, tier2_threshold)]_vars

\* get_recommendations right after a classify_all(overwrite=false) that
\* classified a site and skipped another returns a record
C29_Witness ==
    /\ lastOp.op = "get_recommendations"
    /\ lastOp.previous.op = "classify_all"
    /\ ~lastOp.previous.overwrite
    /\ lastOp.previous.counts.classified > 0
    /\ lastOp.previous.counts.skipped > 0
    /\ lastOp.result # <<>>

\* ------------------------------------------------------ capacity validation

\* number of sites of the inventory in the capacity specification
MaxCapSites == 3

\* ram_gb of the validated server: below, at and above the reservation
RamValues == {4, 5, 6, 9, 16}

CapDomains == {ToString(i) : i \in 1..MaxCapSites}

\* An inventory as load_inventory builds it from a document: server h1 with
\* any ram_gb, server h2 as _ensure_server_exists creates it, and sites on
\* either with any assigned_tier.
InitCapacity ==
    /\ sites \in [CapDomains -> {Site(h, NoneV, t, NoTraffic, NoneV)
                                   : h \in {"h1", "h2"}, t \in Tier \cup {NoneV}}]
    /\ \E ram \in RamValues :
          servers = [h \in {"h1", "h2"} |->
                       Server(IF h = "h1" THEN ram ELSE DefaultRamGb, <<>>, 0,
                              DefaultRecommendedMax, UNDER_CAPACITY)]
    /\ \E p \in ThresholdPairs : tier1_threshold = p[1] /\ tier2_threshold = p[2]
    /\ inventory_file = NoFile
    /\ fs = EmptyMap
    /\ config_dir = {}
    /\ saving = NoSave
    /\ lastOp = NoOp

ValidateServerCapacity ==
    \E h \in DOMAIN servers :
        \E r \in validate_server_capacity(sites, h, servers[h]) :
            /\ lastOp' = [op |-> "validate_server_capacity", result |-> r]
            /\ UNCHANGED <<sites, servers, tier1_threshold, tier2_threshold, inventory_file, fs, config_dir, saving>>

NextCapacity == ValidateServerCapacity

SpecCapacity == InitCapacity /\ [][NextCapacity]_vars

\* the sites of server h that have an assigned tier
AssignedOn(h) == {d \in DOMAIN sites : sites[d].server = h /\ sites[d].assigned_tier # NoneV}

\* C4 as claimed: for any ram_gb > 0, a server with no site that has an
\* assigned tier is reported with is_valid = true and utilization_percent = 0.
C4_Claimed_ZeroSitesAlwaysValid ==
    (lastOp.op = "validate_server_capacity" /\ AssignedOn(lastOp.result.hostname) = {}) =>
        /\ lastOp.result.is_valid
        /\ lastOp.result.utilization_tenths = 0

\* C4 (amended): a server with no site that has an assigned tier is reported
\* with utilization_percent = 0, and with is_valid = true exactly when
\* ram_gb >= 5 (the reservation); below that is_valid = false.
C4_ZeroSitesValidFromReservation ==
    (lastOp.op = "validate_server_capacity" /\ AssignedOn(lastOp.result.hostname) = {}) =>
        /\ lastOp.result.utilization_tenths = 0
        /\ lastOp.result.estimated_ram_q = 0
        /\ lastOp.result.is_valid = (servers[lastOp.result.hostname].ram_gb >= ReservedRamGb)

\* a server of exactly 5 GB that holds only sites without assigned tier
C4_Witness ==
    /\ lastOp.op = "validate_server_capacity"
    /\ AssignedOn(lastOp.result.hostname) = {}
    /\ \E d \in DOMAIN sites : sites[d].server = lastOp.result.hostname
    /\ servers[lastOp.result.hostname].ram_gb = ReservedRamGb
    /\ lastOp.result.is_valid

\* what C5 states about a result r for server h, but for the utilization
CapacityResultOf(r, h) ==
    /\ r.tier1_sites = Cardinality({d \in AssignedOn(h) : sites[d].assigned_tier = HIGH})
    /\ r.tier2_sites = Cardinality({d \in AssignedOn(h) : sites[d].assigned_tier = MEDIUM})
    /\ r.tier3_sites = Cardinality({d \in AssignedOn(h) : sites[d].assigned_tier = LOW})
    /\ r.estimated_ram_q = 18 * r.tier1_sites + 11 * r.tier2_sites + 5 * r.tier3_sites
    /\ r.available_ram_gb = servers[h].ram_gb - 5
    /\ r.is_valid = (r.estimated_ram_q <= 4 * r.available_ram_gb)
    /\ r.available_ram_gb <= 0 => r.utilization_tenths = 0

\* C5 as claimed: counts, estimate, available RAM and is_valid as stated, and
\* utilization_percent = estimated / available * 100 when available > 0.
C5_Claimed_ExactUtilization ==
    lastOp.op = "validate_server_capacity" =>
        LET r == lastOp.result IN
        /\ CapacityResultOf(r, r.hostname)
        /\ r.available_ram_gb > 0 =>
              r.utilization_tenths * 4 * r.available_ram_gb = r.estimated_ram_q * 1000

\* C5 (amended): counts, estimate, available RAM and is_valid as stated;
\* utilization_percent is estimated / available * 100 rounded to one decimal
\* (at most 0.05 away) when available > 0, and 0 otherwise; ram_gb = 16 with
\* two HIGH sites gives 9.0, 11, true and 81.8.
C5_CapacityRoundedUtilization ==
    lastOp.op = "validate_server_capacity" =>
        LET r == lastOp.result
            diff == r.utilization_tenths * 4 * r.available_ram_gb - r.estimated_ram_q * 1000
        IN /\ CapacityResultOf(r, r.hostname)
           /\ r.available_ram_gb > 0 =>
                 /\ 2 * diff <= 4 * r.available_ram_gb
                 /\ -2 * diff <= 4 * r.available_ram_gb
           /\ (servers[r.hostname].ram_gb = 16 /\ r.tier1_sites = 2
                  /\ r.tier2_sites = 0 /\ r.tier3_sites = 0) =>
                 /\ r.estimated_ram_q = 36
                 /\ r.available_ram_gb = 11
                 /\ r.is_valid
                 /\ r.utilization_tenths = 818

\* the 16 GB server with two HIGH sites, next to a site with a tier on the
\* other server, which does not count
C5_Witness ==
    /\ lastOp.op = "validate_server_capacity"
    /\ lastOp.result.hostname = "h1"
    /\ servers["h1"].ram_gb = 16
    /\ lastOp.result.tier1_sites = 2
    /\ lastOp.result.estimated_ram_q = 36
    /\ lastOp.result.utilization_tenths = 818
    /\ \E d \in DOMAIN sites : sites[d].server = "h2" /\ sites[d].assigned_tier # NoneV

\* ------------------------------------------------------------ deploy_to_site

\* DeployerService(config_dir, search_dir) on one site directory of
\* search_dir; the inventory plays no part
DeployDirs == {"alpha"}

AllConfigFiles ==
    {get_tier_config_files(t)[type] : t \in Tier, type \in {"apache", "php_fpm", "php_limits"}}

\* config_dir complete, and with one file of tier 1 missing
ConfigDirs == {AllConfigFiles, AllConfigFiles \ {"php-fpm-pool.conf.tier1"}}

\* the compose files a site directory starts with
InitialComposes ==
    { NoCompose,
      InvalidCompose(FALSE),
      Compose(<<Service(TRUE, <<MountContent>>)>>, FALSE),
      Compose(<<Service(TRUE, <<>>), Service(FALSE, <<MountContent>>)>>, FALSE),
      Compose(<<Service(TRUE, <<MountContent, MountApache, MountFpm, MountLimits>>)>>, FALSE),
      Compose(<<Service(TRUE, <<MountCustom, MountLonger>>)>>, TRUE),
      Compose(<<Service(FALSE, <<MountContent>>)>>, TRUE),
      Compose(<<Service(TRUE, <<MountContent>>), Service(TRUE, <<MountCustom>>)>>, FALSE) }

RestartOutcomes == {"ok", "down_fails", "up_fails"}

InitDeploy ==
    /\ sites = EmptyMap
    /\ servers = EmptyMap
    /\ \E p \in ThresholdPairs : tier1_threshold = p[1] /\ tier2_threshold = p[2]
    /\ inventory_file = NoFile
    /\ \E c \in InitialComposes :
          fs = [d \in DeployDirs |-> SiteDir(c)]
    /\ config_dir \in ConfigDirs
    /\ saving = NoSave
    /\ lastOp = NoOp

\* what the next call can tell about the call before it
Brief(l) ==
    IF l.op = "deploy_to_site"
    THEN [op |-> l.op, site_dir |-> l.site_dir, dry_run |-> l.dry_run, status |-> l.status]
    ELSE [op |-> l.op]

DeployToSite ==
    \E d \in DeployDirs, tier \in Tier, dry_run \in BOOLEAN, overwrite \in BOOLEAN,
       restart \in BOOLEAN, outcome \in RestartOutcomes :
        LET r == deploy_to_site(fs[d], config_dir, tier, dry_run, overwrite, restart, outcome)
        IN /\ fs' = [fs EXCEPT ![d] = r.dir]
           /\ lastOp' = [op |-> "deploy_to_site", site_dir |-> d, tier |-> tier,
                         dry_run |-> dry_run, overwrite |-> overwrite,
                         restart |-> restart, status |-> r.status,
                         error_message |-> r.error_message, io |-> r.io,
                         exception |-> r.exception, raised |-> r.raised,
                         previous |-> Brief(lastOp)]
           /\ UNCHANGED <<sites, servers, tier1_threshold, tier2_threshold,
                          inventory_file, config_dir, saving>>

NextDeploy == DeployToSite

SpecDeploy == InitDeploy /\ [][NextDeploy]_vars

\* C6: a call of deploy_to_site with dry_run = true leaves every site
\* directory as it was (compose file, backup, copied configuration files,
\* running stack) and performs no backup, copy, write or restart, whatever
\* overwrite, restart and the state of the directory are.
C6_DryRunNeverMutates ==
    [][(lastOp'.op = "deploy_to_site" /\ lastOp'.dry_run) =>
          /\ fs' = fs
          /\ lastOp'.io = {}
          /\ lastOp'.status = COMPLETED]_vars

\* a dry run with overwrite and restart on a site a live deployment would
\* change: configured before, with a backup and copied files in place
C6_Witness ==
    /\ lastOp.op = "deploy_to_site"
    /\ lastOp.dry_run
    /\ lastOp.overwrite
    /\ lastOp.restart
    /\ lastOp.error_message = "Dry run - no changes made"
    /\ has_wordpress_container(fs[lastOp.site_dir].compose)
    /\ fs[lastOp.site_dir].backup.exists
    /\ fs[lastOp.site_dir].files.apache # NoneV

\* C7: when a live deploy_to_site has returned COMPLETED on a site whose
\* compose file has a wp_ service, the next call on that site with
\* overwrite = false returns COMPLETED with the "Already configured" message
\* and performs no backup, copy, write or restart.
C7_SecondDeployAlreadyConfigured ==
    [][(/\ lastOp.op = "deploy_to_site"
        /\ ~lastOp.dry_run
        /\ lastOp.status = COMPLETED
        /\ has_wordpress_container(fs[lastOp.site_dir].compose)
        /\ lastOp'.op = "deploy_to_site"
        /\ lastOp'.site_dir = lastOp.site_dir
        /\ ~lastOp'.overwrite) =>
          /\ lastOp'.status = COMPLETED
          /\ lastOp'.error_message = "Already configured (use --overwrite to update)"
          /\ lastOp'.io = {}
          /\ fs' = fs]_vars

\* the second of two live calls on a site the first one wrote the mounts to
\* (it made the backup of a compose file that was not configured)
C7_Witness ==
    /\ lastOp.op = "deploy_to_site"
    /\ ~lastOp.dry_run
    /\ ~lastOp.overwrite
    /\ lastOp.restart
    /\ lastOp.previous = [op |-> "deploy_to_site", site_dir |-> lastOp.site_dir,
                          dry_run |-> FALSE, status |-> COMPLETED]
    /\ lastOp.error_message = "Already configured (use --overwrite to update)"
    /\ has_wordpress_container(fs[lastOp.site_dir].compose)
    /\ fs[lastOp.site_dir].backup.exists
    /\ ~is_configured(fs[lastOp.site_dir].backup)

\* C11: when a live deploy_to_site with restart = true meets a failing
\* restart of the container stack, the failure leaves deploy_to_site as a
\* raised error, not as a returned DeploymentAction.
C11_Claimed_RestartFailureRaises ==
    (/\ lastOp.op = "deploy_to_site"
     /\ ~lastOp.dry_run
     /\ lastOp.restart
     /\ lastOp.exception = "Failed to restart containers") => lastOp.raised

\* C16: every deploy_to_site call returns an action that is COMPLETED or
\* FAILED, never still PENDING; it is FAILED exactly when an exception was
\* raised in the call, which leaves the action PENDING until the handler
\* sets it, and error_message is then the exception's message.
C16_ActionCompletedOrFailed ==
    lastOp.op = "deploy_to_site" =>
        /\ lastOp.status \in {COMPLETED, FAILED}
        /\ lastOp.status = FAILED <=> lastOp.exception # NoneV
        /\ lastOp.status = FAILED => lastOp.error_message = lastOp.exception
        /\ \A tier \in Tier, restart \in BOOLEAN, outcome \in RestartOutcomes :
              LET r == LivePath(fs[lastOp.site_dir], config_dir, tier, restart, outcome)
              IN r.exception # NoneV => r.status = PENDING

\* a call that failed at the second configuration file, after the backup
\* and the first copy
C16_Witness ==
    /\ lastOp.op = "deploy_to_site"
    /\ lastOp.status = FAILED
    /\ lastOp.error_message = "Configuration file not found: php-fpm-pool.conf.tier1"
    /\ lastOp.io = {"backup", "copy"}
    /\ fs[lastOp.site_dir].files.apache = HIGH

\* C19: the compose backup is written at most once per site. A call writes
\* docker-compose.yml.bak only where none exists, as a copy of the compose
\* file; no call changes an existing backup; and the compose file is not
\* changed before the backup exists. So the backup holds the compose file as
\* it was before the first live deployment.
C19_BackupWrittenOnce ==
    [][\A d \in DeployDirs :
          /\ fs[d].backup.exists => fs'[d].backup = fs[d].backup
          /\ (~fs[d].backup.exists /\ fs'[d].backup.exists) =>
                /\ fs'[d].backup = fs[d].compose
                /\ "backup" \in lastOp'.io
          /\ ~fs'[d].backup.exists => fs'[d].compose = fs[d].compose]_vars

\* a second live deployment with overwrite: the compose file was rewritten
\* again, the backup is still the file without the mounts
C19_Witness ==
    /\ lastOp.op = "deploy_to_site"
    /\ ~lastOp.dry_run
    /\ lastOp.overwrite
    /\ lastOp.status = COMPLETED
    /\ lastOp.io = {"copy", "write"}
    /\ lastOp.previous = [op |-> "deploy_to_site", site_dir |-> lastOp.site_dir,
                          dry_run |-> FALSE, status |-> COMPLETED]
    /\ fs[lastOp.site_dir].backup.exists
    /\ ~is_configured(fs[lastOp.site_dir].backup)
    /\ is_configured(fs[lastOp.site_dir].compose)

\* the container-side path of the mount is one of the three target paths
HasTargetPath(v) == v \in {MountApache, MountFpm, MountLimits, MountCustom}

\* the other mounts of a volumes list, in their order
OtherMounts(volumes) ==
    LET F[i \in 0..Len(volumes)] ==
            IF i = 0 THEN <<>>
            ELSE IF HasTargetPath(volumes[i]) THEN F[i - 1]
            ELSE Append(F[i - 1], volumes[i])
    IN F[Len(volumes)]

\* C20: a live deployment that rewrote the compose file leaves in each wp_
\* service the mounts of the original file (kept in the backup) whose
\* container-side path is none of the three target paths, in their order,
\* followed by the three bind-mounts, each exactly once, after any number of
\* live deployments.
C20_Claimed_OnlyTargetMountsReplaced ==
    (lastOp.op = "deploy_to_site" /\ "write" \in lastOp.io) =>
        LET sd == fs[lastOp.site_dir] IN
        \A i \in 1..Len(sd.compose.services) :
            sd.compose.services[i].wp =>
                sd.compose.services[i].volumes =
                    OtherMounts(sd.backup.services[i].volumes) \o volume_mounts

\* the first service of a compose file with a wp_ container_name (0 if none)
FirstWordpress(compose) ==
    IF \E i \in 1..Len(compose.services) : compose.services[i].wp
    THEN CHOOSE i \in 1..Len(compose.services) :
            /\ compose.services[i].wp
            /\ \A k \in 1..(i - 1) : ~compose.services[k].wp
    ELSE 0

\* C21: a live deployment that rewrote a compose file with more than one
\* wp_ service changed the volumes of the first such service only; every
\* other service has the volumes of the original file (kept in the backup).
C21_Claimed_FirstMatchOnly ==
    (lastOp.op = "deploy_to_site" /\ "write" \in lastOp.io) =>
        LET sd == fs[lastOp.site_dir] IN
        \A i \in 1..Len(sd.compose.services) :
            i # FirstWordpress(sd.compose) =>
                sd.compose.services[i].volumes = sd.backup.services[i].volumes

\* C22: deploy_to_site tests "already configured" before "dry run". A
\* configured site with overwrite = false gives "Already configured" with
\* or without dry_run; a dry run gives "Dry run" exactly when the site is not
\* configured or overwrite is true; the live path is taken exactly when
\* dry_run is false and the site is not configured or overwrite is true.
C22_ChecksInOrder ==
    [][lastOp'.op = "deploy_to_site" =>
        LET l == lastOp'
            configured == is_configured(fs[l.site_dir].compose)
            already == l.status = COMPLETED
                       /\ l.error_message = "Already configured (use --overwrite to update)"
            dry == l.status = COMPLETED /\ l.error_message = "Dry run - no changes made"
        IN /\ already <=> (configured /\ ~l.overwrite)
           /\ dry <=> (l.dry_run /\ (~configured \/ l.overwrite))
           /\ (~already /\ ~dry) <=> (~l.dry_run /\ (~configured \/ l.overwrite))
           /\ (l.io # {} \/ l.exception # NoneV) => (~already /\ ~dry)]_vars

\* a dry run on a configured site without overwrite: "Already configured"
C22_Witness ==
    /\ lastOp.op = "deploy_to_site"
    /\ lastOp.dry_run
    /\ ~lastOp.overwrite
    /\ lastOp.error_message = "Already configured (use --overwrite to update)"
    /\ is_configured(fs[lastOp.site_dir].compose)

\* the source files of a tier that the configuration directory lacks
MissingSources(tier, cfg) ==
    {get_tier_config_files(tier)[type] : type \in DOMAIN get_tier_config_files(tier)} \ cfg

\* C25: a live deployment (dry_run false, site not configured or overwrite
\* set) to a site with a compose file, for a tier one of whose three source
\* files is missing from the configuration directory, returns a FAILED
\* action whose message names a missing file, raises nothing, and leaves the
\* content of the compose file as it was.
C25_MissingConfigFileFails ==
    [][lastOp'.op = "deploy_to_site" =>
         LET l == lastOp'
             sd == fs[l.site_dir]
             live == ~l.dry_run /\ (~is_configured(sd.compose) \/ l.overwrite)
         IN (live /\ sd.compose.exists /\ MissingSources(l.tier, config_dir) # {}) =>
               /\ l.status = FAILED
               /\ \E f \in MissingSources(l.tier, config_dir) :
                     l.error_message = "Configuration file not found: " \o f
               /\ ~l.raised
               /\ "write" \notin l.io
               /\ fs'[l.site_dir].compose = sd.compose]_vars

\* a live deployment for tier 1 failed on the missing php-fpm-pool.conf.tier1
\* after the apache file had been copied
C25_Witness ==
    /\ lastOp.op = "deploy_to_site"
    /\ ~lastOp.dry_run
    /\ lastOp.tier = HIGH
    /\ lastOp.status = FAILED
    /\ lastOp.error_message = "Configuration file not found: php-fpm-pool.conf.tier1"
    /\ "copy" \in lastOp.io
    /\ fs[lastOp.site_dir].compose.exists
    /\ "php-fpm-pool.conf.tier1" \notin config_dir

\* C28 as claimed: a call that returns FAILED has created no backup, copied
\* no configuration file, not written the compose file and not stopped the
\* stack.
C28_Claimed_FailedLeavesSiteUntouched ==
    (lastOp.op = "deploy_to_site" /\ lastOp.status = FAILED) => lastOp.io = {}

\* C28: a call that returns FAILED was on the live path and may have changed
\* the site directory. The backup is created if there was none and the
\* compose file exists, and an existing backup is kept; configuration files
\* are copied up to the first missing one; the compose file is changed only
\* when the failure is the restart's, and then it is the rewritten file and
\* the backup exists; the stack is stopped only when `docker compose up`
\* failed after `docker compose down`.
C28_FailedAfterPartialWork ==
    [][(lastOp'.op = "deploy_to_site" /\ lastOp'.status = FAILED) =>
         LET l == lastOp'
             before == fs[l.site_dir]
             after == fs'[l.site_dir]
             restart_failed == l.restart /\ l.error_message = "Failed to restart containers"
         IN /\ ~l.dry_run /\ (~is_configured(before.compose) \/ l.overwrite)
            /\ after.backup = IF before.backup.exists THEN before.backup ELSE before.compose
            /\ ("backup" \in l.io) <=> (after.backup # before.backup)
            /\ (after.files # before.files) => "copy" \in l.io
            /\ \A type \in DOMAIN after.files :
                  after.files[type] \in {before.files[type], l.tier}
            /\ (after.compose # before.compose) =>
                  /\ restart_failed
                  /\ after.compose = add_volume_mounts(before.compose)
                  /\ after.backup.exists
            /\ ("write" \in l.io) <=> restart_failed
            /\ (after.up # before.up) => (restart_failed /\ "down" \in l.io /\ ~after.up)
            /\ l.io \subseteq {"backup", "copy", "write", "down"}]_vars

\* a first live deployment that failed in `docker compose up`: the backup
\* was made, the files copied, the compose file rewritten and the stack is
\* down
C28_Witness ==
    /\ lastOp.op = "deploy_to_site"
    /\ lastOp.status = FAILED
    /\ lastOp.error_message = "Failed to restart containers"
    /\ lastOp.io = {"backup", "copy", "write", "down"}
    /\ ~fs[lastOp.site_dir].up
    /\ fs[lastOp.site_dir].compose # fs[lastOp.site_dir].backup
    /\ fs[lastOp.site_dir].files.php_limits = lastOp.tier

\* ------------------------------------------- deployments next to an inventory

\* an inventory imported from a JSON file and one WordPress site directory
\* that is not configured yet
InitDeployInventory ==
    /\ \E rows \in SeqsUpTo(JsonRows, MaxRows) :
          LET r == import_from_json(EmptyMap, EmptyMap, rows) IN
          sites = r.sites /\ servers = r.servers
    /\ \E p \in ThresholdPairs : tier1_threshold = p[1] /\ tier2_threshold = p[2]
    /\ inventory_file = NoFile
    /\ fs = [d \in DeployDirs |-> SiteDir(Compose(<<Service(TRUE, <<MountContent>>)>>, FALSE))]
    /\ config_dir = AllConfigFiles
    /\ saving = NoSave
    /\ lastOp = NoOp

NextDeployInventory ==
    \/ DeployToSite
    \/ SetTier

SpecDeployInventory == InitDeployInventory /\ [][NextDeployInventory]_vars

\* C24: needs_update() is true iff current_tier and assigned_tier are both
\* set and differ; a deploy_to_site call changes no site's current_tier or
\* assigned_tier, so a site that needs an update before the call needs it
\* after the call, a successful one included.
C24_NeedsUpdateSurvivesDeploy ==
    [][/\ \A d \in DOMAIN sites' :
             needs_update(sites'[d]) <=>
                 /\ sites'[d].current_tier # NoneV
                 /\ sites'[d].assigned_tier # NoneV
                 /\ sites'[d].current_tier # sites'[d].assigned_tier
       /\ lastOp'.op = "deploy_to_site" =>
             /\ DOMAIN sites' = DOMAIN sites
             /\ \A d \in DOMAIN sites :
                   /\ sites'[d].current_tier = sites[d].current_tier
                   /\ sites'[d].assigned_tier = sites[d].assigned_tier
                   /\ needs_update(sites[d]) => needs_update(sites'[d])]_vars

\* a live deployment that completed and wrote the compose file, with a site
\* in the inventory that still needs an update
C24_Witness ==
    /\ lastOp.op = "deploy_to_site"
    /\ ~lastOp.dry_run
    /\ lastOp.status = COMPLETED
    /\ "write" \in lastOp.io
    /\ \E d \in DOMAIN sites : needs_update(sites[d])
    /\ \E d \in DOMAIN sites : ~needs_update(sites[d]) /\ sites[d].assigned_tier # NoneV

\* ------------------------------------------------------ find_wordpress_sites

SearchDirs == {PathOrder[i] : i \in 1..Len(PathOrder)}

\* what a directory under search_dir holds: no compose file, one without a
\* wp_ service, one with a wp_ service after another service
FoundComposes ==
    { NoCompose,
      Compose(<<Service(FALSE, <<MountContent>>)>>, FALSE),
      Compose(<<Service(FALSE, <<>>), Service(TRUE, <<MountContent>>)>>, FALSE) }

\* the pattern arguments: none, an empty list, one pattern that is part of a
\* name, of every path or of nothing, and lists of two
PatternArgs ==
    { NoPatterns, PatternList(<<>>), PatternList(<<"alp">>), PatternList(<<" beta ">>),
      PatternList(<<"sites">>), PatternList(<<"zzz">>),
      PatternList(<<" beta ", "alp">>), PatternList(<<"zzz", "sites">>) }

InitFind ==
    /\ sites = EmptyMap
    /\ servers = EmptyMap
    /\ \E p \in ThresholdPairs : tier1_threshold = p[1] /\ tier2_threshold = p[2]
    /\ inventory_file = NoFile
    /\ fs \in [SearchDirs -> {SiteDir(c) : c \in FoundComposes}]
    /\ config_dir = AllConfigFiles
    /\ saving = NoSave
    /\ lastOp = NoOp

FindWordpressSites ==
    \E include_patterns \in PatternArgs, exclude_patterns \in PatternArgs :
        /\ lastOp' = [op |-> "find_wordpress_sites", include |-> include_patterns,
                      exclude |-> exclude_patterns,
                      result |-> find_wordpress_sites(fs, include_patterns, exclude_patterns)]
        /\ UNCHANGED <<sites, servers, tier1_threshold, tier2_threshold, inventory_file,
                       fs, config_dir, saving>>

NextFind == FindWordpressSites

SpecFind == InitFind /\ [][NextFind]_vars

\* a site directory's name or path contains one of the patterns (compared
\* without surrounding blanks)
MatchesAny(name, patterns) ==
    \E i \in 1..Len(patterns.list) :
        InName(Strip(patterns.list[i]), name) \/ InPath(Strip(patterns.list[i]), name)

\* C15: find_wordpress_sites returns exactly the directories one level under
\* the search root whose compose file has a wp_ service, that match no exclude
\* pattern and, when include patterns are given, match one of them; exclude
\* wins over include; the result is in the order of the paths.
C15_FindWordpressSites ==
    lastOp.op = "find_wordpress_sites" =>
        LET r == lastOp.result IN
        /\ Elems(r) =
              {name \in SearchDirs :
                  /\ fs[name].compose.exists
                  /\ \E i \in 1..Len(fs[name].compose.services) :
                        fs[name].compose.services[i].wp
                  /\ ~MatchesAny(name, lastOp.exclude)
                  /\ Len(lastOp.include.list) > 0 => MatchesAny(name, lastOp.include)}
        /\ \A i, j \in 1..Len(r) :
              i < j => \E a, b \in 1..Len(PathOrder) :
                          a < b /\ PathOrder[a] = r[i] /\ PathOrder[b] = r[j]

\* three WordPress sites, of which the include patterns match two and the
\* exclude pattern one of these two
C15_Witness ==
    /\ lastOp.op = "find_wordpress_sites"
    /\ \A name \in SearchDirs : has_wordpress_container(fs[name].compose)
    /\ lastOp.include = PatternList(<<" beta ", "alp">>)
    /\ lastOp.exclude = PatternList(<<"alp">>)
    /\ lastOp.result = <<"beta">>

\* ------------------------------------------------------------ deploy execute

BatchDirs == {"alpha", "beta"}

\* the compose files of the batch: a WordPress site, a configured one, and
\* a stack without WordPress
BatchComposes ==
    { Compose(<<Service(TRUE, <<MountContent>>)>>, FALSE),
      Compose(<<Service(TRUE, <<MountContent, MountApache, MountFpm, MountLimits>>)>>, FALSE),
      Compose(<<Service(FALSE, <<MountContent>>)>>, FALSE) }

\* tiers of the batch: one with a file missing under config_dir, one complete
BatchTiers == {HIGH, MEDIUM}

\* what docker compose does in each directory during a run: it works
\* everywhere, or fails in the first directory only
BatchOutcomes ==
    { [d \in BatchDirs |-> "ok"],
      [d \in BatchDirs |-> IF d = "alpha" THEN "down_fails" ELSE "ok"] }

InitBatch ==
    /\ sites = EmptyMap
    /\ servers = EmptyMap
    /\ \E p \in ThresholdPairs : tier1_threshold = p[1] /\ tier2_threshold = p[2]
    /\ inventory_file = NoFile
    /\ fs \in [BatchDirs -> {SiteDir(c) : c \in BatchComposes}]
    /\ config_dir = AllConfigFiles \ {"php-fpm-pool.conf.tier1"}
    /\ saving = NoSave
    /\ lastOp = NoOp

\* --dry-run is a flag with default True: dry_run is always True, and only
\* --no-dry-run makes the run live
Execute ==
    \E tier \in BatchTiers, no_dry_run \in BOOLEAN, overwrite \in BOOLEAN, restart \in BOOLEAN,
       include_patterns \in {NoPatterns, PatternList(<<"alp">>)},
       outcomes \in BatchOutcomes :
        LET r == execute(fs, config_dir, tier, include_patterns, NoPatterns, TRUE, no_dry_run,
                         overwrite, restart, outcomes)
        IN /\ fs' = r.dirs
           /\ lastOp' = [op |-> "execute", include |-> include_patterns,
                         dry_run |-> ~no_dry_run, overwrite |-> overwrite,
                         restart |-> restart,
                         found |-> r.found, results |-> r.results,
                         printed |-> r.printed, summary |-> r.summary]
           /\ UNCHANGED <<sites, servers, tier1_threshold, tier2_threshold,
                          inventory_file, config_dir, saving>>

NextBatch == Execute

SpecBatch == InitBatch /\ [][NextBatch]_vars

\* C17: a deploy run processes every site that find_wordpress_sites
\* returned, once and in order, with one result each, whatever the outcome of
\* the sites before; directories that were not found are left alone; the
\* summary's success + skipped + failed is the number of sites found.
C17_BatchProcessesEverySite ==
    [][lastOp'.op = "execute" =>
        LET l == lastOp' IN
        /\ l.found = find_wordpress_sites(fs, l.include, NoPatterns)
        /\ Len(l.results) = Len(l.found)
        /\ \A i \in 1..Len(l.found) :
              /\ l.results[i].site = l.found[i]
              /\ l.results[i].status \in {COMPLETED, FAILED}
        /\ \A d \in BatchDirs \ Elems(l.found) : fs'[d] = fs[d]
        /\ l.summary.success + l.summary.skipped + l.summary.failed = Len(l.found)
        /\ l.summary.failed =
              Cardinality({i \in 1..Len(l.results) : l.results[i].status = FAILED})
        /\ l.printed <=> l.found # <<>>]_vars

\* a live run over two sites whose first site failed at the restart and
\* whose second site was deployed
C17_Witness ==
    /\ lastOp.op = "execute"
    /\ ~lastOp.dry_run
    /\ lastOp.restart
    /\ lastOp.found = <<"alpha", "beta">>
    /\ lastOp.results[1].status = FAILED
    /\ lastOp.results[1].error_message = "Failed to restart containers"
    /\ lastOp.results[2].status = COMPLETED
    /\ lastOp.results[2].error_message = NoneV
    /\ lastOp.summary = [success |-> 1, skipped |-> 0, failed |-> 1]
    /\ is_configured(fs["beta"].compose)

\* ---------------------------------------------------- classify_site alone

\* ClassifierService(inventory, tier1_threshold, tier2_threshold) on an empty
\* inventory, for any pair of thresholds
InitClassifySite ==
    /\ sites = EmptyMap
    /\ servers = EmptyMap
    /\ tier1_threshold \in Thresholds
    /\ tier2_threshold \in Thresholds
    /\ inventory_file = NoFile
    /\ fs = EmptyMap
    /\ config_dir = {}
    /\ saving = NoSave
    /\ lastOp = NoOp

ClassifySite ==
    \E traffic \in Visitors \cup {NoTraffic}, assigned \in Tier \cup {NoneV} :
        LET site == Site("server01", NoneV, assigned, traffic, NoneV) IN
        /\ lastOp' = [op |-> "classify_site", site |-> site,
                      result |-> classify_site(site, tier1_threshold, tier2_threshold)]
        /\ UNCHANGED <<sites, servers, tier1_threshold, tier2_threshold, inventory_file, fs, config_dir, saving>>

NextClassifySite == ClassifySite

SpecClassifySite == InitClassifySite /\ [][NextClassifySite]_vars

\* C1: classify_site returns HIGH when daily_visitors >= tier1_threshold,
\* MEDIUM when tier2_threshold <= daily_visitors < tier1_threshold, LOW when
\* daily_visitors is below both thresholds, and LOW without traffic data,
\* for every pair of thresholds.
C1_ClassifySiteByThresholds ==
    lastOp.op = "classify_site" =>
        LET dv == lastOp.site.traffic
            r == lastOp.result
        IN /\ dv = NoTraffic => r = LOW
           /\ (dv # NoTraffic /\ dv >= tier1_threshold) => r = HIGH
           /\ (dv # NoTraffic /\ tier2_threshold <= dv /\ dv < tier1_threshold)
                 => r = MEDIUM
           /\ (dv # NoTraffic /\ dv < tier1_threshold /\ dv < tier2_threshold)
                 => r = LOW

C1_Witness ==
    /\ lastOp.op = "classify_site"
    /\ lastOp.site.traffic = tier1_threshold
    /\ tier2_threshold < tier1_threshold
    /\ lastOp.result = HIGH

====
